---- MODULE Spec2Model ----
(***************************************************************************)
(* Authentication and authorization subsystem of the Hono API server:      *)
(* password handling, JWT issue/verify, the in-memory repositories, the    *)
(* access-control middleware and the register / login / refresh / logout / *)
(* session routes together with the OAuth callback flow.                   *)
(*                                                                         *)
(* Strings that the code inspects character by character (passwords,      *)
(* emails, the Authorization scheme) are sequences of one-character        *)
(* strings.  Time is counted in seconds.  Requests run on one event loop:  *)
(* every action is the synchronous code between two awaits of a handler.   *)
(***************************************************************************)
EXTENDS Integers, Sequences, FiniteSets, TLC

\* ------------------------------------------------------------------------
\* Bounds of the model
\* ------------------------------------------------------------------------
MaxInFlight == 2
MaxRequests == 4
MaxUsers == 2
MaxSessions == 3
MaxTicks == 1

\* ------------------------------------------------------------------------
\* Character-level strings
\* ------------------------------------------------------------------------
UpperCase ==
  <<"A","B","C","D","E","F","G","H","I","J","K","L","M",
    "N","O","P","Q","R","S","T","U","V","W","X","Y","Z">>

LowerCase ==
  <<"a","b","c","d","e","f","g","h","i","j","k","l","m",
    "n","o","p","q","r","s","t","u","v","w","x","y","z">>

Digits == {"0","1","2","3","4","5","6","7","8","9"}

Range(q) == {q[i] : i \in 1..Len(q)}

ToLowerChar(c) ==
  IF c \in Range(UpperCase)
  THEN LowerCase[CHOOSE i \in 1..Len(UpperCase) : UpperCase[i] = c]
  ELSE c

\* String.prototype.toLowerCase
toLowerCase(s) == [i \in 1..Len(s) |-> ToLowerChar(s[i])]

RECURSIVE trimStart(_), trimEnd(_)
trimStart(s) == IF s # <<>> /\ Head(s) = " " THEN trimStart(Tail(s)) ELSE s

trimEnd(s) == IF s # <<>> /\ s[Len(s)] = " " THEN trimEnd(SubSeq(s, 1, Len(s) - 1)) ELSE s

\* String.prototype.trim
trim(s) == trimEnd(trimStart(s))

\* ------------------------------------------------------------------------
\* Password handler
\* ------------------------------------------------------------------------
BCRYPT_ROUNDS == 12
MinLength == 8
MaxLength == 128

ErrTooShort == "Password must be at least 8 characters"
ErrTooLong == "Password must be at most 128 characters"
ErrNoUpper == "Password must contain at least one uppercase letter"
ErrNoLower == "Password must contain at least one lowercase letter"
ErrNoNumber == "Password must contain at least one number"

\* variant: the checks stop at the first violated rule
validatePassword_FirstErrorOnly(password) ==
  LET errors ==
        IF Len(password) < MinLength THEN <<ErrTooShort>>
        ELSE IF Len(password) > MaxLength THEN <<ErrTooLong>>
        ELSE IF Range(password) \cap Range(UpperCase) = {} THEN <<ErrNoUpper>>
        ELSE IF Range(password) \cap Range(LowerCase) = {} THEN <<ErrNoLower>>
        ELSE IF Range(password) \cap Digits = {} THEN <<ErrNoNumber>>
        ELSE <<>>
  IN [valid |-> (Len(errors) = 0), errors |-> errors]

\* validatePassword: every violated rule contributes one error, in order
validatePassword(password) ==
  LET e1 == IF Len(password) < MinLength THEN <<ErrTooShort>> ELSE <<>>
      e2 == IF Len(password) > MaxLength THEN <<ErrTooLong>> ELSE <<>>
      e3 == IF Range(password) \cap Range(UpperCase) = {} THEN <<ErrNoUpper>> ELSE <<>>
      e4 == IF Range(password) \cap Range(LowerCase) = {} THEN <<ErrNoLower>> ELSE <<>>
      e5 == IF Range(password) \cap Digits = {} THEN <<ErrNoNumber>> ELSE <<>>
      errors == e1 \o e2 \o e3 \o e4 \o e5
  IN [valid |-> (Len(errors) = 0), errors |-> errors]

COMMON_PASSWORDS ==
  { <<"p","a","s","s","w","o","r","d">>,
    <<"1","2","3","4","5","6">>,
    <<"1","2","3","4","5","6","7","8">>,
    <<"q","w","e","r","t","y">>,
    <<"a","b","c","1","2","3">>,
    <<"p","a","s","s","w","o","r","d","1","2","3">>,
    <<"a","d","m","i","n">>,
    <<"l","e","t","m","e","i","n">>,
    <<"w","e","l","c","o","m","e">>,
    <<"m","o","n","k","e","y">> }

isCommonPassword(password) == toLowerCase(password) \in COMMON_PASSWORDS

\* bcrypt.hash: a 60-character hash that matches exactly the hashed password
hashPassword(password) == [wellFormed |-> TRUE, rounds |-> BCRYPT_ROUNDS, pw |-> password]

\* '$2a$12$dummy.hash.to.prevent.timing.attacks' is 43 characters long, not a bcrypt hash
DummyHash == [wellFormed |-> FALSE, rounds |-> BCRYPT_ROUNDS, pw |-> <<>>]

\* bcrypt.compare: false for a hash that is not 60 characters long
verifyPassword(password, hash) == hash.wellFormed /\ hash.pw = password

\* /^[^\s@]+@[^\s@]+\.[^\s@]+$/
emailRegexTest(s) ==
  \E i \in 1..Len(s) : \E j \in 1..Len(s) :
    /\ s[i] = "@"
    /\ s[j] = "."
    /\ 1 < i /\ i + 1 < j /\ j < Len(s)
    /\ \A k \in 1..Len(s) : (k # i) => (s[k] # "@" /\ s[k] # " ")

\* ------------------------------------------------------------------------
\* Request inputs
\* ------------------------------------------------------------------------
EmailAB == <<"a","@","b",".","c","o","m">>
EmailABUpper == <<"A","@","B",".","c","o","m">>
EmailCD == <<"c","@","d",".","c","o","m">>
EmailBad == <<"a","b",".","c","o","m">>
EmailEmpty == <<>>

Password123 == <<"P","a","s","s","w","o","r","d","1","2","3">>
Abcdefg1 == <<"A","b","c","d","e","f","g","1">>
PasswordWeak == <<"p","a","s","s","w","o","r","d">>

RegisterEmails == {EmailAB, EmailABUpper, EmailCD, EmailBad, EmailEmpty}
RegisterPasswords == {Password123, Abcdefg1, PasswordWeak}
LoginEmails == {EmailAB, EmailCD}
LoginPasswords == {Abcdefg1, Password123}

\* ------------------------------------------------------------------------
\* State: the in-memory stores, the environment, and the requests in flight
\* ------------------------------------------------------------------------
VARIABLES
  users,            \* Map<UserId, StoredUser>
  usersByEmail,     \* Map<string, UserId>
  sessions,         \* Map<SessionId, Session>
  sessionSeq,       \* number of session ids generated so far
  clock,            \* Date.now(), in seconds
  req,              \* the requests in flight, one per slot
  lines,            \* history: session id -> tokens handed out with that session
  started,          \* number of requests received so far
  ticks,            \* number of clock steps taken so far
  oauthAccounts,    \* Map<OAuthAccountId, OAuthAccount>
  oauthByProvider,  \* Map<string, OAuthAccountId>, keyed by provider:providerAccountId
  oauthSeq,         \* number of OAuth account ids generated so far
  cookies,          \* the browser's oauth_state and oauth_code_verifier cookies
  gate,             \* one request passing through the access-control middleware
  env,              \* process.env: JWT_SECRET, "" when it is not set
  call,             \* the library function last called on its own, with its result
  items,            \* Map<ItemId, Item>
  itemSeq           \* number of item ids generated so far

\* ------------------------------------------------------------------------
\* Token service (jose SignJWT / jwtVerify with HS256)
\* ------------------------------------------------------------------------
ACCESS_TOKEN_EXPIRY == 900
REFRESH_TOKEN_EXPIRY == 604800
ALGORITHM == "HS256"
ISSUER == "monorepo-api"
AUDIENCE == "monorepo-client"

\* a call that throws
Failed(error) == [ok |-> FALSE, error |-> error]

Threw(result) == "error" \in DOMAIN result

\* getConfig: JWT_SECRET from the environment or the development default;
\* it throws when JWT_SECRET is not set in production
DefaultJwtSecret == "development-secret-key-change-in-production-min-32-chars"

getConfig ==
  IF env.JWT_SECRET = "" /\ env.NODE_ENV = "production"
  THEN Failed("Missing required environment variables: JWT_SECRET")
  ELSE [ok |-> TRUE,
        JWT_SECRET |-> IF env.JWT_SECRET = "" THEN DefaultJwtSecret ELSE env.JWT_SECRET]

\* variant: any configured secret is used
getSecretKey_AnyLength ==
  IF ~getConfig.ok THEN getConfig
  ELSE [ok |-> TRUE, key |-> getConfig.JWT_SECRET]

\* getSecretKey: the key of a secret of at least 32 characters, else it throws
getSecretKey ==
  IF ~getConfig.ok THEN getConfig
  ELSE IF Len(getConfig.JWT_SECRET) < 32
  THEN Failed("JWT_SECRET must be at least 32 characters")
  ELSE [ok |-> TRUE, key |-> getConfig.JWT_SECRET]

\* the key in use
SecretKey == getSecretKey.key

\* a compact JWS: protected header, claims and the key it was signed with
JWS(key, payload, type, now, lifetime) ==
  [ form |-> "jwt", alg |-> ALGORITHM, key |-> key,
    iss |-> ISSUER, aud |-> AUDIENCE,
    sub |-> payload.userId, email |-> payload.email, role |-> payload.role,
    type |-> type, iat |-> now, exp |-> now + lifetime ]

\* new SignJWT(...).sign(getSecretKey())
SignJWT(payload, type, now, lifetime) ==
  IF ~getSecretKey.ok THEN getSecretKey
  ELSE JWS(SecretKey, payload, type, now, lifetime)

generateAccessToken(payload, now) == SignJWT(payload, "access", now, ACCESS_TOKEN_EXPIRY)

generateRefreshToken(payload, now) == SignJWT(payload, "refresh", now, REFRESH_TOKEN_EXPIRY)

\* Promise.all of both: it throws when either throws
generateTokenPair(payload, now) ==
  LET accessToken == generateAccessToken(payload, now)
      refreshToken == generateRefreshToken(payload, now)
  IN IF Threw(accessToken) THEN accessToken
     ELSE IF Threw(refreshToken) THEN refreshToken
     ELSE [ accessToken |-> accessToken, refreshToken |-> refreshToken,
            expiresIn |-> 15 * 60 ]

\* verifyToken: jwtVerify (format, algorithm, signature, issuer, audience,
\* expiry) followed by the required-claims check; a claim of 0 is an absent one
\* variant: a token is still accepted in the second in which it expires
verifyToken_ExpiryInclusive(token, now) ==
  IF ~getSecretKey.ok THEN getSecretKey
  ELSE IF token.form # "jwt" THEN Failed("Invalid Compact JWS")
  ELSE IF token.alg # ALGORITHM THEN Failed("alg not allowed")
  ELSE IF token.key # SecretKey THEN Failed("signature verification failed")
  ELSE IF token.iss # ISSUER THEN Failed("unexpected iss claim value")
  ELSE IF token.aud # AUDIENCE THEN Failed("unexpected aud claim value")
  ELSE IF token.exp # 0 /\ token.exp < now THEN Failed("exp claim timestamp check failed")
  ELSE IF token.sub = 0 \/ token.exp = 0 \/ token.iat = 0
       THEN Failed("Invalid token payload: missing required claims")
  ELSE [ ok |-> TRUE,
         payload |-> [ sub |-> token.sub, email |-> token.email, role |-> token.role,
                       type |-> token.type, iat |-> token.iat, exp |-> token.exp ] ]

verifyToken(token, now) ==
  IF ~getSecretKey.ok THEN getSecretKey
  ELSE IF token.form # "jwt" THEN Failed("Invalid Compact JWS")
  ELSE IF token.alg # ALGORITHM THEN Failed("alg not allowed")
  ELSE IF token.key # SecretKey THEN Failed("signature verification failed")
  ELSE IF token.iss # ISSUER THEN Failed("unexpected iss claim value")
  ELSE IF token.aud # AUDIENCE THEN Failed("unexpected aud claim value")
  ELSE IF token.exp # 0 /\ token.exp <= now THEN Failed("exp claim timestamp check failed")
  ELSE IF token.sub = 0 \/ token.exp = 0 \/ token.iat = 0
       THEN Failed("Invalid token payload: missing required claims")
  ELSE [ ok |-> TRUE,
         payload |-> [ sub |-> token.sub, email |-> token.email, role |-> token.role,
                       type |-> token.type, iat |-> token.iat, exp |-> token.exp ] ]

\* variant: the type claim is not looked at
verifyAccessToken_AnyType(token, now) == verifyToken(token, now)

verifyAccessToken(token, now) ==
  LET v == verifyToken(token, now)
  IN IF ~v.ok THEN v
     ELSE IF v.payload.type # "access" THEN Failed("Invalid token type: expected access token")
     ELSE v

verifyRefreshToken(token, now) ==
  LET v == verifyToken(token, now)
  IN IF ~v.ok THEN v
     ELSE IF v.payload.type # "refresh" THEN Failed("Invalid token type: expected refresh token")
     ELSE v

\* the empty string in the place of a token
EmptyToken ==
  [ form |-> "empty", alg |-> "", key |-> "", iss |-> "", aud |-> "",
    sub |-> 0, email |-> <<>>, role |-> "", type |-> "", iat |-> 0, exp |-> 0 ]

\* a string that is not a compact JWS
GarbageToken == [EmptyToken EXCEPT !.form = "garbage"]

\* An Authorization header is the list of its space-separated parts: the
\* first part (scheme) and the parts after it; defined = FALSE is no header.
NoHeader == [defined |-> FALSE, scheme |-> <<>>, rest |-> <<>>]

BearerScheme == <<"B","e","a","r","e","r">>

Bearer(token) == [defined |-> TRUE, scheme |-> BearerScheme, rest |-> <<token>>]

\* extractBearerToken: {} is null, {t} the token string t
extractBearerToken(authHeader) ==
  IF ~authHeader.defined \/ (authHeader.scheme = <<>> /\ authHeader.rest = <<>>) THEN {}
  ELSE IF 1 + Len(authHeader.rest) # 2
          \/ toLowerCase(authHeader.scheme) # <<"b","e","a","r","e","r">> THEN {}
  ELSE {authHeader.rest[1]}

\* getRefreshTokenExpiry
getRefreshTokenExpiry(now) == now + 7 * 24 * 60 * 60

The(S) == CHOOSE x \in S : TRUE

\* ------------------------------------------------------------------------
\* Access-control middleware
\* ------------------------------------------------------------------------
\* requireAuth: status 0 means next() was called with `user` set in the context
requireAuth(authHeader, now) ==
  LET token == extractBearerToken(authHeader)
  IN IF token = {} \/ The(token).form = "empty"
     THEN [status |-> 401, error |-> "Authentication required", user |-> {}]
     ELSE LET v == verifyAccessToken(The(token), now)
          IN IF v.ok
             THEN [status |-> 0, error |-> "", user |-> {v.payload}]
             ELSE [status |-> 401, error |-> "Authentication failed", user |-> {}]

\* variant: any token this server signed attaches its user
optionalAuth_AnyType(authHeader, now) ==
  LET token == extractBearerToken(authHeader)
  IN IF token = {} \/ The(token).form = "empty" THEN {}
     ELSE LET v == verifyToken(The(token), now)
          IN IF v.ok THEN {v.payload} ELSE {}

\* optionalAuth: the `user` of the context when next() is called, {} when none
optionalAuth(authHeader, now) ==
  LET token == extractBearerToken(authHeader)
  IN IF token = {} \/ The(token).form = "empty" THEN {}
     ELSE LET v == verifyAccessToken(The(token), now)
          IN IF v.ok THEN {v.payload} ELSE {}

\* requireRole(allowedRoles) applied to a context whose `user` is ctxUser
\* variant: an admin passes whatever the allowed roles are
requireRole_AdminPasses(allowedRoles, ctxUser) ==
  IF ctxUser = {} THEN [status |-> 401, error |-> "Authentication required"]
  ELSE IF The(ctxUser).role \notin allowedRoles \cup {"admin"}
       THEN [status |-> 403, error |-> "Access denied. Required role"]
  ELSE [status |-> 0, error |-> ""]

requireRole(allowedRoles, ctxUser) ==
  IF ctxUser = {} THEN [status |-> 401, error |-> "Authentication required"]
  ELSE IF The(ctxUser).role \notin allowedRoles
       THEN [status |-> 403, error |-> "Access denied. Required role"]
  ELSE [status |-> 0, error |-> ""]

requireAdmin(ctxUser) == requireRole({"admin"}, ctxUser)

requireModerator(ctxUser) == requireRole({"admin", "moderator"}, ctxUser)

\* variant: moderators are let through as admins are
isResourceOwner_Moderators(resourceUserId, user) ==
  user.sub = resourceUserId \/ user.role \in {"admin", "moderator"}

isResourceOwner(resourceUserId, user) ==
  user.sub = resourceUserId \/ user.role = "admin"

\* variant: it never throws
assertResourceOwner_NeverThrows(resourceUserId, user) == 0

\* assertResourceOwner: 0 when it returns, 403 when it throws
assertResourceOwner(resourceUserId, user) ==
  IF ~isResourceOwner(resourceUserId, user) THEN 403 ELSE 0

\* ------------------------------------------------------------------------
\* State
\* ------------------------------------------------------------------------
oauthVars == <<oauthAccounts, oauthByProvider, oauthSeq, cookies>>

itemVars == <<items, itemSeq>>

vars == <<users, usersByEmail, sessions, sessionSeq, clock, req, lines, started, ticks,
          oauthAccounts, oauthByProvider, oauthSeq, cookies, gate, env, call, items, itemSeq>>

\* the handlers that are running or have just answered
Slots == DOMAIN req

\* a wall-clock reading at server start (Date.now() is never 0)
StartTime == 1000

\* the clock advances past the access-token lifetime or past the refresh lifetime
TickSteps == {ACCESS_TOKEN_EXPIRY, REFRESH_TOKEN_EXPIRY}

Names == { <<"A">>, <<"A"," ">> }

Idle == [kind |-> "idle", pc |-> "idle", body |-> {}, local |-> {}, status |-> 0,
         error |-> "", detail |-> <<>>, data |-> {}]

\* a handler still running: kind, position, request and locals
Running(kind, pc, body, local) ==
  [kind |-> kind, pc |-> pc, body |-> body, local |-> local, status |-> 0,
   error |-> "", detail |-> <<>>, data |-> {}]

\* app.onError for an Error that is no HTTPException: its message in
\* development only
UnexpectedError(error) ==
  IF env.NODE_ENV = "" THEN error ELSE "Internal server error"

\* a finished request with its response
Reply(r, status, error, data) ==
  [kind |-> r.kind, pc |-> "done", body |-> r.body, local |-> r.local, status |-> status,
   error |-> error, detail |-> <<>>, data |-> data]

\* ------------------------------------------------------------------------
\* Repository layer
\* ------------------------------------------------------------------------
\* generateUserId: an id no stored user has and no token handed out names
generateUserId ==
  LET used == DOMAIN users \cup {lines[i].userId : i \in DOMAIN lines}
  IN IF used = {} THEN 1 ELSE (CHOOSE m \in used : \A n \in used : n <= m) + 1

\* generateSessionId: a fresh id
generateSessionId == sessionSeq + 1

PublicUser(u) ==
  [id |-> u.id, email |-> u.email, name |-> u.name, role |-> u.role,
   emailVerified |-> u.emailVerified]

\* userRepository.create: the stored user
NewUser(id, data) ==
  [ id |-> id, email |-> toLowerCase(data.email), name |-> data.name,
    passwordHash |-> data.passwordHash, role |-> "user",
    emailVerified |-> data.emailVerified ]

\* userRepository.create: no uniqueness check, the email index is overwritten
UserCreate(data) ==
  LET user == NewUser(generateUserId, data)
  IN /\ users' = (user.id :> user) @@ users
     /\ usersByEmail' = (user.email :> user.id) @@ usersByEmail

emailExists(email) == toLowerCase(email) \in DOMAIN usersByEmail

\* userRepository.findById: {} is null
findById(id) == IF id \in DOMAIN users THEN {PublicUser(users[id])} ELSE {}

findByEmail(email) ==
  IF toLowerCase(email) \in DOMAIN usersByEmail
  THEN findById(usersByEmail[toLowerCase(email)])
  ELSE {}

findByEmailWithPassword(email) ==
  IF toLowerCase(email) \notin DOMAIN usersByEmail THEN {}
  ELSE LET id == usersByEmail[toLowerCase(email)]
       IN IF id \notin DOMAIN users THEN {}
          ELSE {[user |-> PublicUser(users[id]), passwordHash |-> users[id].passwordHash]}

NewSession(id, userId, now) ==
  [id |-> id, userId |-> userId, expiresAt |-> getRefreshTokenExpiry(now), createdAt |-> now]

\* sessionRepository.create, with the tokens of the same response kept as history
SessionCreate(userId, tokens) ==
  LET id == generateSessionId
  IN /\ sessions' = (id :> NewSession(id, userId, clock)) @@ sessions
     /\ sessionSeq' = id
     /\ lines' = (id :> [userId |-> userId, accessToken |-> tokens.accessToken,
                         refreshToken |-> tokens.refreshToken]) @@ lines

\* variant: only the oldest session of the user is deleted
SessionsWithoutUser_OnlyFirst(userId) ==
  LET own == {i \in DOMAIN sessions : sessions[i].userId = userId}
      first == {i \in own : \A j \in own : i <= j}
  IN [id \in DOMAIN sessions \ first |-> sessions[id]]

\* sessionRepository.deleteByUserId: what is left
SessionsWithoutUser(userId) ==
  [id \in {i \in DOMAIN sessions : sessions[i].userId # userId} |-> sessions[id]]

\* sessionRepository.delete: what is left
SessionsWithout(sid) == [id \in DOMAIN sessions \ {sid} |-> sessions[id]]

\* variant: a session expiring at this very moment is deleted too
SessionsUnexpired_Inclusive(now) ==
  [id \in {i \in DOMAIN sessions : ~(sessions[i].expiresAt <= now)} |-> sessions[id]]

\* sessionRepository.deleteExpired: what is left
SessionsUnexpired(now) ==
  [id \in {i \in DOMAIN sessions : ~(sessions[i].expiresAt < now)} |-> sessions[id]]

\* history: the stores as a request found them
Snapshot ==
  [users |-> users, usersByEmail |-> usersByEmail, sessions |-> sessions,
   oauthAccounts |-> oauthAccounts, oauthByProvider |-> oauthByProvider]

\* requests that may still create a user / a session
PendingUsers ==
  Cardinality({s \in Slots :
     \/ req[s].kind = "register" /\ req[s].pc = "checked" /\ ~req[s].local.existingUser
     \/ req[s].kind = "callback" /\ req[s].pc \in {"exchange", "fetch", "lookup", "resolve"}})

PendingSessions ==
  Cardinality({s \in Slots :
     \/ req[s].kind \in {"register", "login"}
        /\ req[s].pc \in {"checked", "created", "found", "tokens"}
     \/ req[s].kind = "callback" /\ req[s].pc # "done"})

RoomForUser == Cardinality(DOMAIN users) + PendingUsers < MaxUsers

RoomForSession == sessionSeq + PendingSessions < MaxSessions

CanStart(s) == req[s].kind = "idle" /\ started < MaxRequests

NoCookies == [oauth_state |-> {}, oauth_code_verifier |-> {}]

NoGate == [pc |-> "off"]

NoCall == [fn |-> "", args |-> <<>>, result |-> {}]

\* no JWT_SECRET and no NODE_ENV in the environment: the development defaults
DefaultEnv == [JWT_SECRET |-> "", NODE_ENV |-> ""]

\* JWT_SECRET unset, of 5, 31 and 32 characters
LibSecrets ==
  { "", "short", "weak-secret-of-31-characters-xx", "good-secret-of-32-characters-xxx" }

LibEnvs == {[JWT_SECRET |-> k, NODE_ENV |-> n] : k \in LibSecrets, n \in {"", "production"}}

\* the state after construction: empty maps, no request
EmptyStores ==
  /\ users = <<>>
  /\ usersByEmail = <<>>
  /\ sessions = <<>>
  /\ sessionSeq = 0
  /\ clock = StartTime
  /\ lines = <<>>
  /\ started = 0
  /\ ticks = 0
  /\ oauthAccounts = <<>>
  /\ oauthByProvider = <<>>
  /\ oauthSeq = 0
  /\ cookies = NoCookies
  /\ call = NoCall
  /\ items = <<>>
  /\ itemSeq = 0

\* requests served one at a time
Init ==
  /\ EmptyStores
  /\ env = DefaultEnv
  /\ req = [s \in {1} |-> Idle]
  /\ gate = NoGate

\* up to MaxInFlight requests suspended at their awaits at the same time
InitRace ==
  /\ EmptyStores
  /\ env = DefaultEnv
  /\ req = [s \in 1..MaxInFlight |-> Idle]
  /\ gate = NoGate

\* ------------------------------------------------------------------------
\* POST /api/auth/register
\* ------------------------------------------------------------------------
\* body parsed, validations, userRepository.emailExists
RegisterReceive(s, email, password, name) ==
  LET body == [email |-> email, password |-> password, name |-> name]
      r == Running("register", "recv", body, [fresh |-> ~emailExists(email), snap |-> Snapshot])
      passwordValidation == validatePassword(password)
  IN /\ CanStart(s)
     /\ started' = started + 1
     /\ IF email = <<>> \/ password = <<>> \/ name = <<>>
        THEN req' = [req EXCEPT ![s] = Reply(r, 400, "Email, password, and name are required", {})]
        ELSE IF ~emailRegexTest(email)
        THEN req' = [req EXCEPT ![s] = Reply(r, 400, "Invalid email format", {})]
        ELSE IF ~passwordValidation.valid
        THEN req' = [req EXCEPT ![s] =
                       [Reply(r, 400, "Password does not meet requirements", {})
                          EXCEPT !.detail = passwordValidation.errors]]
        ELSE IF isCommonPassword(password)
        THEN req' = [req EXCEPT ![s] =
                       Reply(r, 400, "Password is too common. Please choose a stronger password.", {})]
        ELSE /\ RoomForSession
             /\ emailExists(email) \/ RoomForUser
             /\ req' = [req EXCEPT ![s] =
                          Running("register", "checked", body,
                                  [fresh |-> ~emailExists(email), snap |-> Snapshot,
                                   existingUser |-> emailExists(email)])]
     /\ UNCHANGED <<users, usersByEmail, sessions, sessionSeq, clock, lines, ticks, oauthVars, gate, env, call, itemVars>>

\* the 409 answer, or hashPassword and userRepository.create
RegisterCreate(s) ==
  LET r == req[s]
  IN /\ r.kind = "register" /\ r.pc = "checked"
     /\ IF r.local.existingUser
        THEN /\ req' = [req EXCEPT ![s] =
                          Reply(r, 409, "An account with this email already exists", {})]
             /\ UNCHANGED <<users, usersByEmail>>
        ELSE LET data == [email |-> r.body.email, name |-> trim(r.body.name),
                          passwordHash |-> {hashPassword(r.body.password)},
                          emailVerified |-> FALSE]
                 user == NewUser(generateUserId, data)
             IN /\ UserCreate(data)
                /\ req' = [req EXCEPT ![s] =
                             Running("register", "created", r.body,
                                     [fresh |-> r.local.fresh, snap |-> r.local.snap,
                                      user |-> PublicUser(user)])]
     /\ UNCHANGED <<sessions, sessionSeq, clock, lines, started, ticks, oauthVars, gate, env, call, itemVars>>

\* generateTokenPair; an Error it throws is answered 500 by app.onError
RegisterTokens(s) ==
  LET r == req[s]
      user == r.local.user
      tokens == generateTokenPair([userId |-> user.id, email |-> user.email, role |-> user.role], clock)
  IN /\ r.kind = "register" /\ r.pc = "created"
     /\ req' = [req EXCEPT ![s] =
                  IF Threw(tokens) THEN Reply(r, 500, UnexpectedError(tokens.error), {})
                  ELSE Running("register", "tokens", r.body,
                               [fresh |-> r.local.fresh, snap |-> r.local.snap, user |-> user,
                                tokens |-> tokens])]
     /\ UNCHANGED <<users, usersByEmail, sessions, sessionSeq, clock, lines, started, ticks, oauthVars, gate, env, call, itemVars>>

\* sessionRepository.create and the 201 answer
RegisterSession(s) ==
  LET r == req[s]
      user == r.local.user
      tokens == r.local.tokens
  IN /\ r.kind = "register" /\ r.pc = "tokens"
     /\ SessionCreate(user.id, tokens)
     /\ req' = [req EXCEPT ![s] =
                  Reply(r, 201, "",
                        {[user |-> user, accessToken |-> {tokens.accessToken},
                          refreshToken |-> {tokens.refreshToken}, expiresIn |-> tokens.expiresIn]})]
     /\ UNCHANGED <<users, usersByEmail, clock, started, ticks, oauthVars, gate, env, call, itemVars>>

\* the response reaches the client, which applies its cookie deletions
Complete(s) ==
  /\ req[s].pc = "done"
  /\ req' = [req EXCEPT ![s] = Idle]
  /\ cookies' = IF req[s].kind = "callback"
                THEN [n \in DOMAIN cookies |->
                        IF n \in req[s].local.cleared THEN {} ELSE cookies[n]]
                ELSE cookies
  /\ UNCHANGED <<users, usersByEmail, sessions, sessionSeq, clock, lines, started, ticks,
                 oauthAccounts, oauthByProvider, oauthSeq, gate, env, call, itemVars>>

\* time passes
Tick ==
  /\ ticks < MaxTicks
  /\ \E d \in TickSteps : clock' = clock + d
  /\ ticks' = ticks + 1
  /\ UNCHANGED <<users, usersByEmail, sessions, sessionSeq, req, lines, started, oauthVars, gate, env, call, itemVars>>

\* ------------------------------------------------------------------------
\* POST /api/auth/login
\* ------------------------------------------------------------------------
\* body parsed, required fields, userRepository.findByEmailWithPassword
LoginReceive(s, email, password) ==
  LET body == [email |-> email, password |-> password]
      r == Running("login", "recv", body, [snap |-> Snapshot])
  IN /\ CanStart(s)
     /\ started' = started + 1
     /\ IF email = <<>> \/ password = <<>>
        THEN req' = [req EXCEPT ![s] = Reply(r, 400, "Email and password are required", {})]
        ELSE /\ RoomForSession
             /\ req' = [req EXCEPT ![s] =
                          Running("login", "found", body,
                                  [snap |-> Snapshot,
                                   result |-> findByEmailWithPassword(email)])]
     /\ UNCHANGED <<users, usersByEmail, sessions, sessionSeq, clock, lines, ticks, oauthVars, gate, env, call, itemVars>>

\* variant: an unknown e-mail address is answered 404
LoginVerify_UserNotFound(s) ==
  LET r == req[s]
      result == r.local.result
  IN /\ r.kind = "login" /\ r.pc = "found"
     /\ IF result = {}
        THEN req' = [req EXCEPT ![s] = Reply(r, 404, "User not found", {})]
        ELSE IF The(result).passwordHash = {}
        THEN LET decoy == verifyPassword(r.body.password, DummyHash)
             IN req' = [req EXCEPT ![s] = Reply(r, 401, "Invalid email or password", {})]
        ELSE IF ~verifyPassword(r.body.password, The(The(result).passwordHash))
        THEN req' = [req EXCEPT ![s] = Reply(r, 401, "Invalid email or password", {})]
        ELSE LET user == The(result).user
                 tokens == generateTokenPair(
                             [userId |-> user.id, email |-> user.email, role |-> user.role], clock)
             IN req' = [req EXCEPT ![s] =
                          IF Threw(tokens) THEN Reply(r, 500, UnexpectedError(tokens.error), {})
                          ELSE Running("login", "tokens", r.body,
                                       [snap |-> r.local.snap, user |-> user, tokens |-> tokens])]
     /\ UNCHANGED <<users, usersByEmail, sessions, sessionSeq, clock, lines, started, ticks, oauthVars, gate, env, call, itemVars>>

\* the decoy comparison and 401, or verifyPassword and generateTokenPair
LoginVerify(s) ==
  LET r == req[s]
      result == r.local.result
  IN /\ r.kind = "login" /\ r.pc = "found"
     /\ IF result = {} \/ The(result).passwordHash = {}
        THEN LET decoy == verifyPassword(r.body.password, DummyHash)
             IN req' = [req EXCEPT ![s] = Reply(r, 401, "Invalid email or password", {})]
        ELSE IF ~verifyPassword(r.body.password, The(The(result).passwordHash))
        THEN req' = [req EXCEPT ![s] = Reply(r, 401, "Invalid email or password", {})]
        ELSE LET user == The(result).user
                 tokens == generateTokenPair(
                             [userId |-> user.id, email |-> user.email, role |-> user.role], clock)
             IN req' = [req EXCEPT ![s] =
                          IF Threw(tokens) THEN Reply(r, 500, UnexpectedError(tokens.error), {})
                          ELSE Running("login", "tokens", r.body,
                                       [snap |-> r.local.snap, user |-> user, tokens |-> tokens])]
     /\ UNCHANGED <<users, usersByEmail, sessions, sessionSeq, clock, lines, started, ticks, oauthVars, gate, env, call, itemVars>>

\* variant: the 200 answer without a session
LoginSession_TokensOnly(s) ==
  LET r == req[s]
      user == r.local.user
      tokens == r.local.tokens
  IN /\ r.kind = "login" /\ r.pc = "tokens"
     /\ req' = [req EXCEPT ![s] =
                  Reply(r, 200, "",
                        {[user |-> user, accessToken |-> {tokens.accessToken},
                          refreshToken |-> {tokens.refreshToken}, expiresIn |-> tokens.expiresIn]})]
     /\ UNCHANGED <<users, usersByEmail, sessions, sessionSeq, lines, clock, started, ticks, oauthVars, gate, env, call, itemVars>>

\* sessionRepository.create and the 200 answer
LoginSession(s) ==
  LET r == req[s]
      user == r.local.user
      tokens == r.local.tokens
  IN /\ r.kind = "login" /\ r.pc = "tokens"
     /\ SessionCreate(user.id, tokens)
     /\ req' = [req EXCEPT ![s] =
                  Reply(r, 200, "",
                        {[user |-> user, accessToken |-> {tokens.accessToken},
                          refreshToken |-> {tokens.refreshToken}, expiresIn |-> tokens.expiresIn]})]
     /\ UNCHANGED <<users, usersByEmail, clock, started, ticks, oauthVars, gate, env, call, itemVars>>

\* ------------------------------------------------------------------------
\* Tokens a client can present: the ones handed out in responses
\* ------------------------------------------------------------------------
\* history: the token was handed out and every session created with it is gone
LineRevoked(t) ==
  /\ \E i \in DOMAIN lines : lines[i].refreshToken = t
  /\ \A i \in DOMAIN lines : lines[i].refreshToken = t => i \notin DOMAIN sessions

KnownAccessTokens == {lines[i].accessToken : i \in DOMAIN lines}

KnownRefreshTokens == {lines[i].refreshToken : i \in DOMAIN lines}

ClientHeaders == {NoHeader} \cup {Bearer(t) : t \in KnownAccessTokens \cup KnownRefreshTokens}

\* ------------------------------------------------------------------------
\* POST /api/auth/refresh
\* ------------------------------------------------------------------------
\* body parsed; refreshToken is {} when the field is absent
RefreshReceive(s, refreshToken) ==
  LET body == [refreshToken |-> refreshToken]
      revoked == refreshToken # {} /\ LineRevoked(The(refreshToken))
      r == Running("refresh", "recv", body, [revoked |-> revoked, snap |-> Snapshot])
  IN /\ CanStart(s)
     /\ started' = started + 1
     /\ IF refreshToken = {} \/ The(refreshToken).form = "empty"
        THEN req' = [req EXCEPT ![s] = Reply(r, 400, "Refresh token is required", {})]
        ELSE req' = [req EXCEPT ![s] = Running("refresh", "verifying", body, r.local)]
     /\ UNCHANGED <<users, usersByEmail, sessions, sessionSeq, clock, lines, ticks, oauthVars, gate, env, call, itemVars>>

\* verifyRefreshToken, then userRepository.findById
RefreshVerify(s) ==
  LET r == req[s]
      v == verifyRefreshToken(The(r.body.refreshToken), clock)
  IN /\ r.kind = "refresh" /\ r.pc = "verifying"
     /\ IF ~v.ok
        THEN req' = [req EXCEPT ![s] = Reply(r, 401, "Invalid or expired refresh token", {})]
        ELSE req' = [req EXCEPT ![s] =
                       Running("refresh", "found", r.body,
                               [revoked |-> r.local.revoked, snap |-> r.local.snap,
                                payload |-> v.payload,
                                user |-> findById(v.payload.sub)])]
     /\ UNCHANGED <<users, usersByEmail, sessions, sessionSeq, clock, lines, started, ticks, oauthVars, gate, env, call, itemVars>>

\* variant: the rotated refresh token is returned too
RefreshIssue_WithRefreshToken(s) ==
  LET r == req[s]
  IN /\ r.kind = "refresh" /\ r.pc = "found"
     /\ IF r.local.user = {}
        THEN req' = [req EXCEPT ![s] = Reply(r, 401, "Invalid or expired refresh token", {})]
        ELSE LET user == The(r.local.user)
                 tokens == generateTokenPair(
                             [userId |-> user.id, email |-> user.email, role |-> user.role], clock)
             IN req' = [req EXCEPT ![s] =
                          Reply(r, 200, "",
                                {[accessToken |-> {tokens.accessToken}, refreshToken |-> {tokens.refreshToken},
                                  expiresIn |-> tokens.expiresIn]})]
     /\ UNCHANGED <<users, usersByEmail, sessions, sessionSeq, clock, lines, started, ticks, oauthVars, gate, env, call, itemVars>>

\* the 'User not found' exception is thrown inside the try block and caught
\* by its catch; otherwise generateTokenPair and the 200 answer
RefreshIssue(s) ==
  LET r == req[s]
  IN /\ r.kind = "refresh" /\ r.pc = "found"
     /\ IF r.local.user = {}
        THEN req' = [req EXCEPT ![s] = Reply(r, 401, "Invalid or expired refresh token", {})]
        ELSE LET user == The(r.local.user)
                 tokens == generateTokenPair(
                             [userId |-> user.id, email |-> user.email, role |-> user.role], clock)
             IN req' = [req EXCEPT ![s] =
                          Reply(r, 200, "",
                                {[accessToken |-> {tokens.accessToken}, refreshToken |-> {},
                                  expiresIn |-> tokens.expiresIn]})]
     /\ UNCHANGED <<users, usersByEmail, sessions, sessionSeq, clock, lines, started, ticks, oauthVars, gate, env, call, itemVars>>

\* ------------------------------------------------------------------------
\* POST /api/auth/logout
\* ------------------------------------------------------------------------
LogoutReceive(s, authHeader) ==
  /\ CanStart(s)
  /\ started' = started + 1
  /\ req' = [req EXCEPT ![s] = Running("logout", "auth", [authHeader |-> authHeader], {})]
  /\ UNCHANGED <<users, usersByEmail, sessions, sessionSeq, clock, lines, ticks, oauthVars, gate, env, call, itemVars>>

\* requireAuth, then the handler: sessionRepository.deleteByUserId
LogoutRun(s) ==
  LET r == req[s]
      auth == requireAuth(r.body.authHeader, clock)
  IN /\ r.kind = "logout" /\ r.pc = "auth"
     /\ IF auth.status # 0
        THEN /\ req' = [req EXCEPT ![s] = Reply(r, auth.status, auth.error, {})]
             /\ UNCHANGED sessions
        ELSE LET user == The(auth.user)
                 count == Cardinality({i \in DOMAIN sessions : sessions[i].userId = user.sub})
             IN /\ sessions' = SessionsWithoutUser(user.sub)
                /\ req' = [req EXCEPT ![s] =
                             Reply([r EXCEPT !.local = [user |-> user, count |-> count,
                                                         before |-> sessions]],
                                   200, "", {})]
     /\ UNCHANGED <<users, usersByEmail, sessionSeq, clock, lines, started, ticks, oauthVars, gate, env, call, itemVars>>

\* ------------------------------------------------------------------------
\* DELETE /api/auth/sessions/:id
\* ------------------------------------------------------------------------
RevokeReceive(s, authHeader, id) ==
  /\ CanStart(s)
  /\ started' = started + 1
  /\ req' = [req EXCEPT ![s] =
               Running("revoke", "auth", [authHeader |-> authHeader, id |-> id], {})]
  /\ UNCHANGED <<users, usersByEmail, sessions, sessionSeq, clock, lines, ticks, oauthVars, gate, env, call, itemVars>>

\* requireAuth, then the handler up to sessionRepository.findById
RevokeFind(s) ==
  LET r == req[s]
      auth == requireAuth(r.body.authHeader, clock)
  IN /\ r.kind = "revoke" /\ r.pc = "auth"
     /\ IF auth.status # 0
        THEN req' = [req EXCEPT ![s] = Reply(r, auth.status, auth.error, {})]
        ELSE req' = [req EXCEPT ![s] =
                       Running("revoke", "found", r.body,
                               [user |-> The(auth.user), before |-> sessions,
                                session |-> IF r.body.id \in DOMAIN sessions
                                            THEN {sessions[r.body.id]} ELSE {}])]
     /\ UNCHANGED <<users, usersByEmail, sessions, sessionSeq, clock, lines, started, ticks, oauthVars, gate, env, call, itemVars>>

\* variant: any authenticated caller may delete the session
RevokeDelete_AnyCaller(s) ==
  LET r == req[s]
      user == r.local.user
  IN /\ r.kind = "revoke" /\ r.pc = "found"
     /\ IF r.local.session = {}
        THEN /\ req' = [req EXCEPT ![s] = Reply(r, 404, "Session not found", {})]
             /\ UNCHANGED sessions
        ELSE /\ sessions' = SessionsWithout(The(r.local.session).id)
             /\ req' = [req EXCEPT ![s] = Reply(r, 200, "", {})]
     /\ UNCHANGED <<users, usersByEmail, sessionSeq, clock, lines, started, ticks, oauthVars, gate, env, call, itemVars>>

\* 404, 403, or sessionRepository.delete and the 200 answer
RevokeDelete(s) ==
  LET r == req[s]
      user == r.local.user
  IN /\ r.kind = "revoke" /\ r.pc = "found"
     /\ IF r.local.session = {}
        THEN /\ req' = [req EXCEPT ![s] = Reply(r, 404, "Session not found", {})]
             /\ UNCHANGED sessions
        ELSE IF The(r.local.session).userId # user.sub /\ user.role # "admin"
        THEN /\ req' = [req EXCEPT ![s] =
                          Reply(r, 403, "Cannot revoke another user's session", {})]
             /\ UNCHANGED sessions
        ELSE /\ sessions' = SessionsWithout(The(r.local.session).id)
             /\ req' = [req EXCEPT ![s] = Reply(r, 200, "", {})]
     /\ UNCHANGED <<users, usersByEmail, sessionSeq, clock, lines, started, ticks, oauthVars, gate, env, call, itemVars>>

\* ------------------------------------------------------------------------
\* The password and session routes on one event loop
\* ------------------------------------------------------------------------
Next ==
  \/ \E s \in Slots : \E e \in RegisterEmails : \E p \in RegisterPasswords : \E n \in Names :
       RegisterReceive(s, e, p, n)
  \/ \E s \in Slots : RegisterCreate(s)
  \/ \E s \in Slots : RegisterTokens(s)
  \/ \E s \in Slots : RegisterSession(s)
  \/ \E s \in Slots : \E e \in LoginEmails : \E p \in LoginPasswords : LoginReceive(s, e, p)
  \/ \E s \in Slots : LoginVerify(s)
  \/ \E s \in Slots : LoginSession(s)
  \/ \E s \in Slots : \E t \in {{}} \cup {{x} : x \in KnownAccessTokens \cup KnownRefreshTokens} :
       RefreshReceive(s, t)
  \/ \E s \in Slots : RefreshVerify(s)
  \/ \E s \in Slots : RefreshIssue(s)
  \/ \E s \in Slots : \E h \in ClientHeaders : LogoutReceive(s, h)
  \/ \E s \in Slots : LogoutRun(s)
  \/ \E s \in Slots : \E h \in ClientHeaders : \E id \in 1..MaxSessions : RevokeReceive(s, h, id)
  \/ \E s \in Slots : RevokeFind(s)
  \/ \E s \in Slots : RevokeDelete(s)
  \/ \E s \in Slots : Complete(s)
  \/ Tick

Spec == Init /\ [][Next]_vars

\* ------------------------------------------------------------------------
\* Concurrent registrations
\* ------------------------------------------------------------------------
NextRace ==
  \/ \E s \in Slots : \E e \in RegisterEmails : \E p \in RegisterPasswords : \E n \in Names :
       RegisterReceive(s, e, p, n)
  \/ \E s \in Slots : RegisterCreate(s)
  \/ \E s \in Slots : RegisterTokens(s)
  \/ \E s \in Slots : RegisterSession(s)
  \/ \E s \in Slots : Complete(s)

SpecRace == InitRace /\ [][NextRace]_vars

\* ------------------------------------------------------------------------
\* Registration and login under any environment
\* ------------------------------------------------------------------------
\* the environments the server starts in: index.ts calls getConfig() when it
\* is loaded, which throws in production without JWT_SECRET
ServerEnvs == {e \in LibEnvs : ~(e.JWT_SECRET = "" /\ e.NODE_ENV = "production")}

InitEnv ==
  /\ EmptyStores
  /\ env \in ServerEnvs
  /\ req = [s \in {1} |-> Idle]
  /\ gate = NoGate

NextEnv ==
  \/ \E s \in Slots : \E e \in {EmailAB, EmailBad} : \E p \in {Abcdefg1, PasswordWeak} :
       RegisterReceive(s, e, p, <<"A">>)
  \/ \E s \in Slots : RegisterCreate(s)
  \/ \E s \in Slots : RegisterTokens(s)
  \/ \E s \in Slots : RegisterSession(s)
  \/ \E s \in Slots : \E e \in LoginEmails : \E p \in LoginPasswords : LoginReceive(s, e, p)
  \/ \E s \in Slots : LoginVerify(s)
  \/ \E s \in Slots : LoginSession(s)
  \/ \E s \in Slots : Complete(s)

SpecEnv == InitEnv /\ [][NextEnv]_vars

\* ------------------------------------------------------------------------
\* The session sweep next to requests in flight
\* ------------------------------------------------------------------------
MaxSweepTicks == 2

\* the clock reaches the expiry of the refresh tokens issued at the last reading
SweepTick ==
  /\ ticks < MaxSweepTicks
  /\ clock' = clock + REFRESH_TOKEN_EXPIRY
  /\ ticks' = ticks + 1
  /\ UNCHANGED <<users, usersByEmail, sessions, sessionSeq, req, lines, started, oauthVars, gate, env, call, itemVars>>

\* requests are taken by the first free slot
FirstIdle(s) == \A t \in Slots : t < s => req[t].kind # "idle"

\* sessionRepository.deleteExpired() runs without an await: one step. The call
\* is kept with the sessions it found and left, its time and the time of the
\* sweep before it.
SessionDeleteExpired ==
  /\ started < MaxRequests
  /\ started' = started + 1
  /\ sessions' = SessionsUnexpired(clock)
  /\ call' = [fn |-> "deleteExpired", args |-> <<>>,
              result |-> Cardinality(DOMAIN sessions) - Cardinality(DOMAIN sessions'),
              before |-> sessions, after |-> sessions', now |-> clock,
              prev |-> IF call.fn = "deleteExpired" THEN {call.now} ELSE {}]
  /\ UNCHANGED <<users, usersByEmail, sessionSeq, clock, req, lines, ticks, oauthVars, gate, env, itemVars>>

NextSweep ==
  \/ \E s \in Slots : FirstIdle(s) /\ RegisterReceive(s, EmailAB, Abcdefg1, <<"A">>)
  \/ \E s \in Slots : RegisterCreate(s)
  \/ \E s \in Slots : RegisterTokens(s)
  \/ \E s \in Slots : RegisterSession(s)
  \/ \E s \in Slots : FirstIdle(s) /\ LoginReceive(s, EmailAB, Abcdefg1)
  \/ \E s \in Slots : LoginVerify(s)
  \/ \E s \in Slots : LoginSession(s)
  \/ \E s \in Slots : \E t \in KnownAccessTokens : FirstIdle(s) /\ LogoutReceive(s, Bearer(t))
  \/ \E s \in Slots : LogoutRun(s)
  \/ \E s \in Slots : \E t \in KnownAccessTokens : \E id \in DOMAIN lines :
       FirstIdle(s) /\ RevokeReceive(s, Bearer(t), id)
  \/ \E s \in Slots : RevokeFind(s)
  \/ \E s \in Slots : RevokeDelete(s)
  \/ \E s \in Slots : Complete(s)
  \/ SessionDeleteExpired
  \/ SweepTick

SpecSweep == InitRace /\ [][NextSweep]_vars

\* ------------------------------------------------------------------------
\* The server process is started again
\* ------------------------------------------------------------------------
\* the in-memory maps are empty again and the requests in flight are lost;
\* the secret, the clock and what clients hold (tokens, cookies) stay
Restart ==
  /\ started < MaxRequests
  /\ started' = started + 1
  /\ users' = <<>>
  /\ usersByEmail' = <<>>
  /\ sessions' = <<>>
  /\ oauthAccounts' = <<>>
  /\ oauthByProvider' = <<>>
  /\ items' = <<>>
  /\ req' = [s \in Slots |-> Idle]
  /\ UNCHANGED <<sessionSeq, clock, lines, ticks, oauthSeq, cookies, gate, env, call, itemSeq>>

NextRestart ==
  \/ \E s \in Slots : \E e \in RegisterEmails : \E p \in RegisterPasswords : \E n \in Names :
       RegisterReceive(s, e, p, n)
  \/ \E s \in Slots : RegisterCreate(s)
  \/ \E s \in Slots : RegisterTokens(s)
  \/ \E s \in Slots : RegisterSession(s)
  \/ \E s \in Slots : \E t \in {{}} \cup {{x} : x \in KnownRefreshTokens \cup KnownAccessTokens} :
       RefreshReceive(s, t)
  \/ \E s \in Slots : RefreshVerify(s)
  \/ \E s \in Slots : RefreshIssue(s)
  \/ \E s \in Slots : Complete(s)
  \/ Restart

SpecRestart == Init /\ [][NextRestart]_vars

\* ------------------------------------------------------------------------
\* OAuth: GET /oauth/<provider> and GET /callback/<provider>
\* ------------------------------------------------------------------------
Providers == {"google", "facebook", "twitter"}

\* Google and Twitter use PKCE, Facebook does not
UsesVerifier(provider) == provider \in {"google", "twitter"}

\* the cookies the authorize handler of a provider sets
AuthorizeCookies(provider) ==
  CASE provider = "google" -> {"oauth_state", "oauth_code_verifier"}
    [] provider = "facebook" -> {"oauth_state"}
    [] provider = "twitter" -> {"oauth_state", "oauth_code_verifier"}

\* the cookies the callback handler of a provider deletes
CallbackDeletedCookies(provider) ==
  CASE provider = "google" -> {"oauth_state", "oauth_code_verifier"}
    [] provider = "facebook" -> {"oauth_state"}
    [] provider = "twitter" -> {"oauth_state", "oauth_code_verifier"}

\* generateState() / generateCodeVerifier() values
OAuthStates == {"st1", "st2"}

CodeVerifiers == {"cv1"}

\* access tokens a provider hands out for a code
ProviderTokens == {"tokA", "tokB"}

ProviderAccountIds == {"p1", "p2"}

\* `${twitterUser.username}@twitter.placeholder`
PlaceholderEmail(username) ==
  username \o <<"@","t","w","i","t","t","e","r",".","p","l","a","c","e","h","o","l","d","e","r">>

\* what the user-info endpoint of a provider can answer: id, email (absent
\* when the provider sends none), name
ProviderUsers(provider) ==
  IF provider = "twitter"
  THEN {[id |-> i, email |-> {PlaceholderEmail(u)}, name |-> <<"A">>] :
          i \in ProviderAccountIds, u \in { <<"a">> }}
  ELSE {[id |-> i, email |-> e, name |-> <<"A">>] :
          i \in ProviderAccountIds, e \in {{}, {EmailAB}, {EmailCD}}}

\* GET /oauth/<provider>: state (and code verifier) stored in cookies
AuthorizeSetCookies(provider, state, codeVerifier) ==
  [n \in DOMAIN cookies |->
     IF n \notin AuthorizeCookies(provider) THEN cookies[n]
     ELSE IF n = "oauth_state" THEN {state} ELSE {codeVerifier}]

\* GET /oauth/<provider> received by its handler (the provider's client id
\* and secret are configured)
Authorize(s, provider, state, codeVerifier) ==
  /\ CanStart(s)
  /\ started' = started + 1
  /\ cookies' = AuthorizeSetCookies(provider, state, codeVerifier)
  /\ UNCHANGED <<users, usersByEmail, sessions, sessionSeq, clock, req, lines, ticks,
                 oauthAccounts, oauthByProvider, oauthSeq, gate, env, call, itemVars>>

\* variant: the state is only required to be present, not to match
InvalidOAuthState_PresenceOnly(state, storedState) ==
  state = {} \/ storedState = {}

\* !state || !storedState || state !== storedState
InvalidOAuthState(state, storedState) ==
  state = {} \/ storedState = {} \/ state # storedState

\* the catch block of a callback: redirect to the frontend error page
ErrorRedirect(r, calls) ==
  [Reply(r, 302, "", {}) EXCEPT !.detail = <<"/auth/error", r.body.provider>>,
                                !.local = [r.local EXCEPT !.calls = calls]]

\* a callback handler up to its first await: query and cookies read, cookies
\* deleted, state and code validated; the request as it stands then
CallbackStart(provider, code, state) ==
  LET storedState == cookies.oauth_state
      codeVerifier == cookies.oauth_code_verifier
      body == [provider |-> provider, code |-> code, state |-> state,
               storedState |-> storedState, codeVerifier |-> codeVerifier]
      cleared == CallbackDeletedCookies(provider)
      r == Running("callback", "recv", body, [cleared |-> cleared, calls |-> 0, snap |-> Snapshot])
  IN IF InvalidOAuthState(state, storedState)
     THEN Reply(r, 400, "Invalid OAuth state", {})
     ELSE IF code = {} \/ (UsesVerifier(provider) /\ codeVerifier = {})
     THEN Reply(r, 400, "Missing authorization code", {})
     ELSE [r EXCEPT !.pc = "exchange"]

\* GET /callback/<provider> received by its handler
CallbackReceive(s, provider, code, state) ==
  /\ CanStart(s)
  /\ started' = started + 1
  /\ CallbackStart(provider, code, state).pc = "exchange" => RoomForSession /\ RoomForUser
  /\ req' = [req EXCEPT ![s] = CallbackStart(provider, code, state)]
  /\ UNCHANGED <<users, usersByEmail, sessions, sessionSeq, clock, lines, ticks, oauthVars, gate, env, call, itemVars>>

\* validateAuthorizationCode: the provider refuses the code or returns a token
CallbackExchange(s, ok, accessToken) ==
  LET r == req[s]
  IN /\ r.kind = "callback" /\ r.pc = "exchange"
     /\ IF ~ok
        THEN req' = [req EXCEPT ![s] = ErrorRedirect(r, r.local.calls + 1)]
        ELSE req' = [req EXCEPT ![s] =
                       [r EXCEPT !.pc = "fetch",
                                 !.local = [cleared |-> r.local.cleared, calls |-> r.local.calls + 1,
                                            snap |-> r.local.snap, accessToken |-> accessToken]]]
     /\ UNCHANGED <<users, usersByEmail, sessions, sessionSeq, clock, lines, started, ticks,
                    oauthVars, gate, env, call, itemVars>>

\* oauthAccountRepository.findByProvider
findByProvider(provider, providerAccountId) ==
  IF <<provider, providerAccountId>> \notin DOMAIN oauthByProvider THEN {}
  ELSE LET id == oauthByProvider[<<provider, providerAccountId>>]
       IN IF id \in DOMAIN oauthAccounts THEN {oauthAccounts[id]} ELSE {}

\* the user-info answer; on success handleOAuthUser starts with findByProvider
CallbackFetch(s, ok, providerUser) ==
  LET r == req[s]
      calls == r.local.calls + 1
  IN /\ r.kind = "callback" /\ r.pc = "fetch"
     /\ providerUser \in ProviderUsers(r.body.provider)
     /\ IF ~ok
        THEN req' = [req EXCEPT ![s] = ErrorRedirect(r, calls)]
        ELSE IF r.body.provider = "facebook" /\ providerUser.email = {}
        THEN req' = [req EXCEPT ![s] = ErrorRedirect(r, calls)]
        ELSE req' = [req EXCEPT ![s] =
                       [r EXCEPT !.pc = "lookup",
                                 !.local = [cleared |-> r.local.cleared, calls |-> calls,
                                            snap |-> r.local.snap,
                                            userInfo |-> [provider |-> r.body.provider,
                                                          providerAccountId |-> providerUser.id,
                                                          email |-> providerUser.email,
                                                          name |-> providerUser.name,
                                                          accessToken |-> r.local.accessToken],
                                            existingOAuth |-> findByProvider(r.body.provider,
                                                                             providerUser.id)]]]
     /\ UNCHANGED <<users, usersByEmail, sessions, sessionSeq, clock, lines, started, ticks,
                    oauthVars, gate, env, call, itemVars>>

\* handleOAuthUser: userRepository.findById of the link's user, or
\* userRepository.findByEmail (which throws on an absent email)
OAuthFindUser(s) ==
  LET r == req[s]
      userInfo == r.local.userInfo
  IN /\ r.kind = "callback" /\ r.pc = "lookup"
     /\ IF r.local.existingOAuth # {}
        THEN req' = [req EXCEPT ![s] =
                       [r EXCEPT !.pc = "resolve",
                                 !.local = [cleared |-> r.local.cleared, calls |-> r.local.calls,
                                            snap |-> r.local.snap, userInfo |-> userInfo,
                                            branch |-> "known",
                                            user |-> findById(The(r.local.existingOAuth).userId)]]]
        ELSE IF userInfo.email = {}
        THEN req' = [req EXCEPT ![s] = ErrorRedirect(r, r.local.calls)]
        ELSE req' = [req EXCEPT ![s] =
                       [r EXCEPT !.pc = "resolve",
                                 !.local = [cleared |-> r.local.cleared, calls |-> r.local.calls,
                                            snap |-> r.local.snap, userInfo |-> userInfo,
                                            branch |-> "email",
                                            user |-> findByEmail(The(userInfo.email))]]]
     /\ UNCHANGED <<users, usersByEmail, sessions, sessionSeq, clock, lines, started, ticks,
                    oauthVars, gate, env, call, itemVars>>

\* variant: a new account is stored without looking at the index
upsert_AlwaysInsert(userId, userInfo) ==
  LET key == <<userInfo.provider, userInfo.providerAccountId>>
      id == oauthSeq + 1
  IN /\ oauthAccounts' = (id :> [id |-> id, userId |-> userId,
                                 provider |-> userInfo.provider,
                                 providerAccountId |-> userInfo.providerAccountId,
                                 accessToken |-> userInfo.accessToken,
                                 createdAt |-> clock, updatedAt |-> clock]) @@ oauthAccounts
     /\ oauthByProvider' = (key :> id) @@ oauthByProvider
     /\ oauthSeq' = id

\* oauthAccountRepository.upsert: the tokens of an indexed account are
\* replaced, otherwise a new account is stored and indexed
upsert(userId, userInfo) ==
  LET key == <<userInfo.provider, userInfo.providerAccountId>>
      indexed == key \in DOMAIN oauthByProvider /\ oauthByProvider[key] \in DOMAIN oauthAccounts
      id == oauthSeq + 1
  IN IF indexed
     THEN /\ oauthAccounts' = [oauthAccounts EXCEPT ![oauthByProvider[key]] =
                                 [@ EXCEPT !.accessToken = userInfo.accessToken,
                                           !.updatedAt = clock]]
          /\ UNCHANGED <<oauthByProvider, oauthSeq>>
     ELSE /\ oauthAccounts' = (id :> [id |-> id, userId |-> userId,
                                      provider |-> userInfo.provider,
                                      providerAccountId |-> userInfo.providerAccountId,
                                      accessToken |-> userInfo.accessToken,
                                      createdAt |-> clock, updatedAt |-> clock]) @@ oauthAccounts
          /\ oauthByProvider' = (key :> id) @@ oauthByProvider
          /\ oauthSeq' = id

\* handleOAuthUser: update the known link, link an existing user, or create a user
OAuthResolve(s) ==
  LET r == req[s]
      userInfo == r.local.userInfo
      base == [cleared |-> r.local.cleared, calls |-> r.local.calls, snap |-> r.local.snap,
               userInfo |-> userInfo]
  IN /\ r.kind = "callback" /\ r.pc = "resolve"
     /\ IF r.local.branch = "known" /\ r.local.user = {}
        THEN /\ req' = [req EXCEPT ![s] = ErrorRedirect(r, r.local.calls)]
             /\ UNCHANGED <<users, usersByEmail, oauthAccounts, oauthByProvider, oauthSeq>>
        ELSE IF r.local.branch = "known"
        THEN /\ upsert(The(r.local.user).id, userInfo)
             /\ req' = [req EXCEPT ![s] =
                          [r EXCEPT !.pc = "refetch",
                                    !.local = base @@ [branch |-> "known", user |-> The(r.local.user)]]]
             /\ UNCHANGED <<users, usersByEmail>>
        ELSE IF r.local.user # {}
        THEN /\ upsert(The(r.local.user).id, userInfo)
             /\ req' = [req EXCEPT ![s] =
                          [r EXCEPT !.pc = "verify",
                                    !.local = base @@ [branch |-> "linked", user |-> The(r.local.user)]]]
             /\ UNCHANGED <<users, usersByEmail>>
        ELSE LET data == [email |-> The(userInfo.email), name |-> userInfo.name,
                          passwordHash |-> {}, emailVerified |-> TRUE]
                 user == NewUser(generateUserId, data)
             IN /\ UserCreate(data)
                /\ req' = [req EXCEPT ![s] =
                             [r EXCEPT !.pc = "link",
                                       !.local = base @@ [branch |-> "created",
                                                          user |-> PublicUser(user)]]]
                /\ UNCHANGED <<oauthAccounts, oauthByProvider, oauthSeq>>
     /\ UNCHANGED <<sessions, sessionSeq, clock, lines, started, ticks, cookies, gate, env, call, itemVars>>

\* variant: the linked user is not marked verified
OAuthVerify_Skipped(s) ==
  LET r == req[s]
  IN /\ r.kind = "callback" /\ r.pc = "verify"
     /\ req' = [req EXCEPT ![s] = [r EXCEPT !.pc = "refetch"]]
     /\ UNCHANGED <<users, usersByEmail, sessions, sessionSeq, clock, lines, started, ticks,
                    oauthVars, gate, env, call, itemVars>>

\* userRepository.update(user.id, {emailVerified: true})
OAuthVerify(s) ==
  LET r == req[s]
      id == r.local.user.id
  IN /\ r.kind = "callback" /\ r.pc = "verify"
     /\ users' = IF id \in DOMAIN users
                 THEN [users EXCEPT ![id] = [@ EXCEPT !.emailVerified = TRUE]]
                 ELSE users
     /\ req' = [req EXCEPT ![s] = [r EXCEPT !.pc = "refetch"]]
     /\ UNCHANGED <<usersByEmail, sessions, sessionSeq, clock, lines, started, ticks,
                    oauthVars, gate, env, call, itemVars>>

\* oauthAccountRepository.upsert for the user just created
OAuthLink(s) ==
  LET r == req[s]
  IN /\ r.kind = "callback" /\ r.pc = "link"
     /\ upsert(r.local.user.id, r.local.userInfo)
     /\ req' = [req EXCEPT ![s] = [r EXCEPT !.pc = "refetch"]]
     /\ UNCHANGED <<users, usersByEmail, sessions, sessionSeq, clock, lines, started, ticks,
                    cookies, gate, env, call, itemVars>>

\* user = (await userRepository.findById(user.id))!
OAuthRefetch(s) ==
  LET r == req[s]
  IN /\ r.kind = "callback" /\ r.pc = "refetch"
     /\ req' = [req EXCEPT ![s] =
                  [r EXCEPT !.pc = "sign",
                            !.local = [r.local EXCEPT !.user = The(findById(r.local.user.id))]]]
     /\ UNCHANGED <<users, usersByEmail, sessions, sessionSeq, clock, lines, started, ticks,
                    oauthVars, gate, env, call, itemVars>>

\* generateTokenPair; an Error it throws is caught by the callback
OAuthTokens(s) ==
  LET r == req[s]
      user == r.local.user
      tokens == generateTokenPair([userId |-> user.id, email |-> user.email, role |-> user.role], clock)
  IN /\ r.kind = "callback" /\ r.pc = "sign"
     /\ req' = [req EXCEPT ![s] =
                  IF Threw(tokens) THEN ErrorRedirect(r, r.local.calls)
                  ELSE [r EXCEPT !.pc = "session", !.local = r.local @@ [tokens |-> tokens]]]
     /\ UNCHANGED <<users, usersByEmail, sessions, sessionSeq, clock, lines, started, ticks,
                    oauthVars, gate, env, call, itemVars>>

\* sessionRepository.create and the redirect to the frontend with the tokens
OAuthSession(s) ==
  LET r == req[s]
      user == r.local.user
      tokens == r.local.tokens
  IN /\ r.kind = "callback" /\ r.pc = "session"
     /\ SessionCreate(user.id, tokens)
     /\ req' = [req EXCEPT ![s] =
                  [Reply(r, 302, "",
                         {[user |-> user, accessToken |-> {tokens.accessToken},
                           refreshToken |-> {tokens.refreshToken}, expiresIn |-> tokens.expiresIn]})
                     EXCEPT !.detail = <<"/auth/callback", r.body.provider>>]]
     /\ UNCHANGED <<users, usersByEmail, clock, started, ticks, oauthVars, gate, env, call, itemVars>>

\* social login next to password registration and login, one request at a time
NextOAuth ==
  \/ \E s \in Slots : \E p \in Providers : \E st \in OAuthStates : \E cv \in CodeVerifiers :
       Authorize(s, p, st, cv)
  \/ \E s \in Slots : \E p \in Providers : \E code \in {{}, {"code"}} :
       \E st \in {{}} \cup {{x} : x \in OAuthStates} : CallbackReceive(s, p, code, st)
  \/ \E s \in Slots : \E ok \in BOOLEAN : \E t \in ProviderTokens : CallbackExchange(s, ok, t)
  \/ \E s \in Slots : \E ok \in BOOLEAN : \E u \in UNION {ProviderUsers(p) : p \in Providers} :
       CallbackFetch(s, ok, u)
  \/ \E s \in Slots : OAuthFindUser(s)
  \/ \E s \in Slots : OAuthResolve(s)
  \/ \E s \in Slots : OAuthVerify(s)
  \/ \E s \in Slots : OAuthLink(s)
  \/ \E s \in Slots : OAuthRefetch(s)
  \/ \E s \in Slots : OAuthTokens(s)
  \/ \E s \in Slots : OAuthSession(s)
  \/ \E s \in Slots : \E e \in {EmailAB, EmailCD} : \E n \in { <<"A">> } :
       RegisterReceive(s, e, Abcdefg1, n)
  \/ \E s \in Slots : RegisterCreate(s)
  \/ \E s \in Slots : RegisterTokens(s)
  \/ \E s \in Slots : RegisterSession(s)
  \/ \E s \in Slots : \E e \in LoginEmails : \E p \in LoginPasswords : LoginReceive(s, e, p)
  \/ \E s \in Slots : LoginVerify(s)
  \/ \E s \in Slots : LoginSession(s)
  \/ \E s \in Slots : Complete(s)

SpecOAuth == Init /\ [][NextOAuth]_vars

\* oauthAccountRepository.delete: the index entry of the account, then the account
OAuthAccountDelete(id) ==
  /\ started < MaxRequests
  /\ started' = started + 1
  /\ oauthByProvider' =
       IF id \in DOMAIN oauthAccounts
       THEN [k \in DOMAIN oauthByProvider \
                   {<<oauthAccounts[id].provider, oauthAccounts[id].providerAccountId>>}
               |-> oauthByProvider[k]]
       ELSE oauthByProvider
  /\ oauthAccounts' = [i \in DOMAIN oauthAccounts \ {id} |-> oauthAccounts[i]]
  /\ UNCHANGED <<users, usersByEmail, sessions, sessionSeq, clock, req, lines, ticks,
                 oauthSeq, cookies, gate, env, call, itemVars>>

\* OAuth account ids a caller of delete can name
AccountIds == 1..(oauthSeq + 1)

\* callbacks interleaved at their awaits, and account deletions between them
NextOAuthRace ==
  \/ \E s \in Slots : \E p \in Providers : \E st \in {"st1"} : \E cv \in CodeVerifiers :
       Authorize(s, p, st, cv)
  \/ \E s \in Slots : \E p \in Providers : CallbackReceive(s, p, {"code"}, {"st1"})
  \/ \E s \in Slots : CallbackExchange(s, TRUE, "tokA")
  \/ \E s \in Slots : \E u \in UNION {ProviderUsers(p) : p \in Providers} :
       CallbackFetch(s, TRUE, u)
  \/ \E s \in Slots : OAuthFindUser(s)
  \/ \E s \in Slots : OAuthResolve(s)
  \/ \E s \in Slots : OAuthVerify(s)
  \/ \E s \in Slots : OAuthLink(s)
  \/ \E s \in Slots : OAuthRefetch(s)
  \/ \E s \in Slots : OAuthTokens(s)
  \/ \E s \in Slots : OAuthSession(s)
  \/ \E id \in AccountIds : OAuthAccountDelete(id)
  \/ \E s \in Slots : Complete(s)

SpecOAuthRace == InitRace /\ [][NextOAuthRace]_vars

\* password registration next to Twitter logins, one request at a time; the
\* address registered may be a Twitter placeholder address
NextTwitter ==
  \/ \E s \in Slots : \E st \in OAuthStates : \E cv \in CodeVerifiers :
       Authorize(s, "twitter", st, cv)
  \/ \E s \in Slots : \E code \in {{}, {"code"}} : \E st \in {{}} \cup {{x} : x \in OAuthStates} :
       CallbackReceive(s, "twitter", code, st)
  \/ \E s \in Slots : \E ok \in BOOLEAN : \E t \in ProviderTokens : CallbackExchange(s, ok, t)
  \/ \E s \in Slots : \E ok \in BOOLEAN : \E u \in ProviderUsers("twitter") :
       CallbackFetch(s, ok, u)
  \/ \E s \in Slots : OAuthFindUser(s)
  \/ \E s \in Slots : OAuthResolve(s)
  \/ \E s \in Slots : OAuthVerify(s)
  \/ \E s \in Slots : OAuthLink(s)
  \/ \E s \in Slots : OAuthRefetch(s)
  \/ \E s \in Slots : OAuthTokens(s)
  \/ \E s \in Slots : OAuthSession(s)
  \/ \E s \in Slots : \E e \in {EmailAB, PlaceholderEmail(<<"a">>)} :
       RegisterReceive(s, e, Abcdefg1, <<"A">>)
  \/ \E s \in Slots : RegisterCreate(s)
  \/ \E s \in Slots : RegisterTokens(s)
  \/ \E s \in Slots : RegisterSession(s)
  \/ \E s \in Slots : Complete(s)

SpecTwitter == Init /\ [][NextTwitter]_vars

\* callbacks interleaved at their awaits, nothing else running
NextOAuthPair ==
  \/ \E s \in Slots : \E p \in Providers : \E st \in {"st1"} : \E cv \in CodeVerifiers :
       Authorize(s, p, st, cv)
  \/ \E s \in Slots : \E p \in Providers : CallbackReceive(s, p, {"code"}, {"st1"})
  \/ \E s \in Slots : CallbackExchange(s, TRUE, "tokA")
  \/ \E s \in Slots : \E u \in UNION {ProviderUsers(p) : p \in Providers} :
       CallbackFetch(s, TRUE, u)
  \/ \E s \in Slots : OAuthFindUser(s)
  \/ \E s \in Slots : OAuthResolve(s)
  \/ \E s \in Slots : OAuthVerify(s)
  \/ \E s \in Slots : OAuthLink(s)
  \/ \E s \in Slots : OAuthRefetch(s)
  \/ \E s \in Slots : OAuthTokens(s)
  \/ \E s \in Slots : OAuthSession(s)
  \/ \E s \in Slots : Complete(s)

SpecOAuthPair == InitRace /\ [][NextOAuthPair]_vars

\* ------------------------------------------------------------------------
\* The routes as the server mounts them
\* ------------------------------------------------------------------------
\* A path is the list of its segments; a segment beginning with ':' in a
\* route matches any segment.
Handler(name, provider) == [name |-> name, provider |-> provider]

Route(method, path, handler) == [method |-> method, path |-> path, handler |-> handler]

\* the routes of the auth router, in the order of their registration
authRoutes ==
  << Route("POST", <<"register">>, Handler("register", "")),
     Route("POST", <<"login">>, Handler("login", "")),
     Route("POST", <<"refresh">>, Handler("refresh", "")),
     Route("POST", <<"logout">>, Handler("logout", "")),
     Route("GET", <<"me">>, Handler("me", "")),
     Route("GET", <<"sessions">>, Handler("sessions", "")),
     Route("DELETE", <<"sessions", ":id">>, Handler("revoke", "")) >>

\* the routes of the OAuth router
oauthRoutes ==
  << Route("GET", <<"google">>, Handler("authorize", "google")),
     Route("GET", <<"callback", "google">>, Handler("callback", "google")),
     Route("GET", <<"facebook">>, Handler("authorize", "facebook")),
     Route("GET", <<"callback", "facebook">>, Handler("callback", "facebook")),
     Route("GET", <<"twitter">>, Handler("authorize", "twitter")),
     Route("GET", <<"callback", "twitter">>, Handler("callback", "twitter")),
     Route("GET", <<"providers">>, Handler("providers", "")) >>

\* the routes of the items router
itemsRoutes ==
  << Route("GET", <<>>, Handler("items.list", "")),
     Route("GET", <<":id">>, Handler("items.get", "")),
     Route("POST", <<>>, Handler("items.create", "")),
     Route("PUT", <<":id">>, Handler("items.update", "")),
     Route("DELETE", <<":id">>, Handler("items.delete", "")),
     Route("GET", <<"user", ":userId">>, Handler("items.byUser", "")) >>

\* app.route(base, router): every route of the router under the base path
Mounted(base, router) ==
  [i \in 1..Len(router) |-> [router[i] EXCEPT !.path = base \o @]]

\* the routes of the application, in the order of their registration
AppRoutes ==
  << Route("GET", <<>>, Handler("root", "")),
     Route("GET", <<"health">>, Handler("health", "")) >>
  \o Mounted(<<"api", "auth">>, authRoutes)
  \o Mounted(<<"api", "auth", "oauth">>, oauthRoutes)
  \o Mounted(<<"api", "auth", "callback">>, oauthRoutes)
  \o Mounted(<<"api", "items">>, itemsRoutes)

IsParam(segment) == segment \in {":id", ":userId"}

PathMatches(pattern, path) ==
  /\ Len(pattern) = Len(path)
  /\ \A i \in 1..Len(pattern) : IsParam(pattern[i]) \/ pattern[i] = path[i]

\* app.notFound
NotFound == Handler("notFound", "")

\* the handler that answers a request: the first registered route that matches
Dispatch(method, path) ==
  LET hits == {i \in 1..Len(AppRoutes) :
                 AppRoutes[i].method = method /\ PathMatches(AppRoutes[i].path, path)}
  IN IF hits = {} THEN NotFound
     ELSE AppRoutes[CHOOSE i \in hits : \A j \in hits : i <= j].handler

\* paths a browser or a provider's redirect asks for
RequestPaths ==
  UNION {{ <<"api", "auth", "oauth", p>>, <<"api", "auth", "callback", p>>,
           <<"api", "auth", "oauth", "callback", p>>,
           <<"api", "auth", "callback", "callback", p>> } : p \in Providers}
  \cup { <<"api", "auth", "oauth", "providers">>, <<"health">>, <<"api", "auth", "callback">> }

\* a GET request received by the server and run up to its handler's first await
ServerGet(s, path, code, state, newState, codeVerifier) ==
  LET h == Dispatch("GET", path)
      query == [path |-> path]
      plain == Running(h.name, "recv", query @@ [provider |-> h.provider], {})
  IN /\ CanStart(s)
     /\ started' = started + 1
     /\ h.name \in {"authorize", "callback", "providers", "health", "notFound"}
     /\ IF h.name = "authorize"
        THEN /\ cookies' = AuthorizeSetCookies(h.provider, newState, codeVerifier)
             /\ req' = [req EXCEPT ![s] =
                          [Reply(plain, 200, "", {}) EXCEPT !.detail = <<"url", h.provider>>]]
        ELSE IF h.name = "callback"
        THEN LET r == CallbackStart(h.provider, code, state)
             IN /\ r.pc = "exchange" => RoomForSession /\ RoomForUser
                /\ req' = [req EXCEPT ![s] = [r EXCEPT !.body = query @@ @]]
                /\ UNCHANGED cookies
        ELSE IF h.name = "notFound"
        THEN /\ req' = [req EXCEPT ![s] = Reply(plain, 404, "Not Found", {})]
             /\ UNCHANGED cookies
        ELSE /\ req' = [req EXCEPT ![s] = Reply(plain, 200, "", {})]
             /\ UNCHANGED cookies
     /\ UNCHANGED <<users, usersByEmail, sessions, sessionSeq, clock, lines, ticks,
                    oauthAccounts, oauthByProvider, oauthSeq, gate, env, call, itemVars>>

NextMount ==
  \/ \E s \in Slots : \E path \in RequestPaths : \E code \in {{}, {"code"}} :
       \E st \in {{}} \cup {{x} : x \in OAuthStates} : \E ns \in {"st1"} : \E cv \in CodeVerifiers :
         ServerGet(s, path, code, st, ns, cv)
  \/ \E s \in Slots : \E ok \in BOOLEAN : CallbackExchange(s, ok, "tokA")
  \/ \E s \in Slots : \E ok \in BOOLEAN : \E u \in UNION {ProviderUsers(p) : p \in Providers} :
       CallbackFetch(s, ok, u)
  \/ \E s \in Slots : OAuthFindUser(s)
  \/ \E s \in Slots : OAuthResolve(s)
  \/ \E s \in Slots : OAuthVerify(s)
  \/ \E s \in Slots : OAuthLink(s)
  \/ \E s \in Slots : OAuthRefetch(s)
  \/ \E s \in Slots : OAuthTokens(s)
  \/ \E s \in Slots : OAuthSession(s)
  \/ \E s \in Slots : Complete(s)

SpecMount == Init /\ [][NextMount]_vars

\* ------------------------------------------------------------------------
\* A request passing through a middleware chain
\* ------------------------------------------------------------------------
Roles == {"admin", "user", "moderator"}

GateUsers == 1..MaxUsers

GatePayloads == {[userId |-> u, email |-> EmailAB, role |-> r] : u \in GateUsers, r \in Roles}

\* issued just now, one second before expiry of an access token, and at its expiry
IssueTimes(now) == {now, now - (ACCESS_TOKEN_EXPIRY - 1), now - ACCESS_TOKEN_EXPIRY}

IssuedTokens(now) ==
  UNION { {generateTokenPair(p, t).accessToken, generateTokenPair(p, t).refreshToken} :
            p \in GatePayloads, t \in IssueTimes(now) }

\* tokens this server never signed, or signed without the required claims
ForgedTokens(now) ==
  LET a == generateAccessToken([userId |-> 1, email |-> EmailAB, role |-> "admin"], now)
  IN { [a EXCEPT !.key = "attacker-key"], [a EXCEPT !.alg = "none"],
       [a EXCEPT !.iss = "other-api"], [a EXCEPT !.aud = "other-client"],
       [a EXCEPT !.sub = 0], [a EXCEPT !.exp = 0], [a EXCEPT !.type = ""],
       GarbageToken, EmptyToken }

GateHeaders(now) ==
  LET a == generateAccessToken([userId |-> 1, email |-> EmailAB, role |-> "admin"], now)
  IN {Bearer(t) : t \in IssuedTokens(now) \cup ForgedTokens(now)}
     \cup { NoHeader,
            [defined |-> TRUE, scheme |-> <<>>, rest |-> <<>>],
            [defined |-> TRUE, scheme |-> <<"b","e","a","r","e","r">>, rest |-> <<a>>],
            [defined |-> TRUE, scheme |-> <<"B","E","A","R","E","R">>, rest |-> <<a>>],
            [defined |-> TRUE, scheme |-> <<"B","a","s","i","c">>, rest |-> <<a>>],
            [defined |-> TRUE, scheme |-> BearerScheme, rest |-> <<>>],
            [defined |-> TRUE, scheme |-> BearerScheme, rest |-> <<EmptyToken, a>>],
            [defined |-> TRUE, scheme |-> BearerScheme, rest |-> <<a, a>>] }

\* a route: whether requireAuth guards it, the allowedRoles of its requireRole
\* (if any), and the owner of the resource its handler asserts ownership of (if any)
GateRoutes ==
  {[auth |-> TRUE, allowed |-> {}, owner |-> {}]}
  \cup {[auth |-> b, allowed |-> {A}, owner |-> {}] :
          b \in BOOLEAN, A \in {{"admin"}, {"admin", "moderator"}, {"user"}}}
  \cup {[auth |-> TRUE, allowed |-> {}, owner |-> {o}] : o \in GateUsers}

GateIdle == [pc |-> "idle"]

InitGate ==
  /\ EmptyStores
  /\ env = DefaultEnv
  /\ req = [s \in {1} |-> Idle]
  /\ gate = GateIdle

gateFrame == <<users, usersByEmail, sessions, sessionSeq, clock, req, lines, started, ticks,
               oauthVars, env, call, itemVars>>

GateArrive(route, header) ==
  /\ gate.pc = "idle"
  /\ gate' = [pc |-> IF route.auth THEN "auth" ELSE "role", route |-> route, header |-> header,
              ctx |-> {}, status |-> 0, ran |-> FALSE, seen |-> {}]
  /\ UNCHANGED gateFrame

\* requireAuth(): 401, or c.set('user', payload) and next()
GateRequireAuth ==
  LET auth == requireAuth(gate.header, clock)
  IN /\ gate.pc = "auth"
     /\ IF auth.status # 0
        THEN gate' = [gate EXCEPT !.pc = "done", !.status = auth.status]
        ELSE gate' = [gate EXCEPT !.ctx = auth.user,
                                  !.pc = IF gate.route.allowed # {} THEN "role" ELSE "handler"]
     /\ UNCHANGED gateFrame

\* requireRole(allowedRoles): 401, 403, or next()
GateRequireRole ==
  LET role == requireRole(The(gate.route.allowed), gate.ctx)
  IN /\ gate.pc = "role"
     /\ IF role.status # 0
        THEN gate' = [gate EXCEPT !.pc = "done", !.status = role.status]
        ELSE gate' = [gate EXCEPT !.pc = "handler"]
     /\ UNCHANGED gateFrame

\* the guarded handler: c.get('user') and, on an owned resource, assertResourceOwner
GateHandler ==
  /\ gate.pc = "handler"
  /\ LET owned == IF gate.route.owner = {} THEN 0
                  ELSE assertResourceOwner(The(gate.route.owner), The(gate.ctx))
     IN gate' = [gate EXCEPT !.pc = "done", !.ran = TRUE, !.seen = gate.ctx,
                             !.status = IF owned = 0 THEN 200 ELSE owned]
  /\ UNCHANGED gateFrame

GateReset ==
  /\ gate.pc = "done"
  /\ gate' = GateIdle
  /\ UNCHANGED gateFrame

NextGate ==
  \/ \E route \in GateRoutes : \E header \in GateHeaders(clock) : GateArrive(route, header)
  \/ GateRequireAuth
  \/ GateRequireRole
  \/ GateHandler
  \/ GateReset

SpecGate == InitGate /\ [][NextGate]_vars

\* ------------------------------------------------------------------------
\* The items routes
\* ------------------------------------------------------------------------
MaxItems == 2

\* an :id parameter: prefix and suffix of a TypeID; suffix 0 is a suffix that
\* is not 26 base-32 characters
isValidItemId(id) == id.prefix = "item" /\ id.suffix # 0

ItemId(n) == [prefix |-> "item", suffix |-> n]

ItemIdParams ==
  {ItemId(n) : n \in 0..MaxItems} \cup {[prefix |-> "user", suffix |-> 1]}

\* Object.values(ItemStatus).includes(value)
isItemStatus(value) == value \in {"active", "completed", "archived"}

\* generateItemId: a fresh id
generateItemId == itemSeq + 1

\* itemRepository.findByUserId / findAll: the items listed
ItemsOfUser(userId) == {items[i] : i \in {j \in DOMAIN items : items[j].userId = userId}}

ItemsAll == {items[i] : i \in DOMAIN items}

\* an optional string of a JSON body, trimmed when present: body.x?.trim()
trimmed(field) == {trim(x) : x \in field}

\* itemRepository.create: a field of the stored item is {v}, or {} for undefined
NewItem(id, data, now) ==
  [ id |-> id, userId |-> data.userId, title |-> data.title,
    description |-> data.description,
    status |-> IF data.status = {} THEN {"active"} ELSE data.status,
    createdAt |-> now, updatedAt |-> now ]

\* variant: a key whose value is undefined leaves the field as it is
Updated_DefinedOnly(item, data, now) ==
  [ item EXCEPT !.title = IF data.title = {} THEN @ ELSE data.title,
                !.description = IF data.description = {} THEN @ ELSE data.description,
                !.status = IF data.status = {} THEN @ ELSE data.status,
                !.updatedAt = now ]

\* itemRepository.update: {...item, ...data, updatedAt}; data always has the
\* keys title, description and status, with the value undefined when the body
\* did not supply them, and the spread copies those too
Updated(item, data, now) ==
  [ item EXCEPT !.title = data.title,
                !.description = data.description,
                !.status = data.status,
                !.updatedAt = now ]

\* the callers: a user, a moderator and an admin
ItemCallers ==
  { [userId |-> 1, email |-> EmailAB, role |-> "user"],
    [userId |-> 2, email |-> EmailCD, role |-> "moderator"],
    [userId |-> 3, email |-> EmailCD, role |-> "admin"] }

\* their access tokens, and what optionalAuth / requireAuth must not accept
ItemHeaders(now) ==
  LET u == [userId |-> 1, email |-> EmailAB, role |-> "user"]
      a == generateAccessToken(u, now)
  IN {Bearer(generateAccessToken(p, now)) : p \in ItemCallers}
     \cup { NoHeader,
            Bearer(generateRefreshToken(u, now)),
            Bearer(generateAccessToken(u, now - ACCESS_TOKEN_EXPIRY)),
            Bearer(EmptyToken),
            [defined |-> TRUE, scheme |-> <<"B","a","s","i","c">>, rest |-> <<a>>] }

Body(title, description, status) ==
  [title |-> title, description |-> description, status |-> status]

\* JSON bodies of POST: title only, no title, a blank title, a status that is
\* none
CreateBodies ==
  { Body({<<"t"," ">>}, {}, {}),
    Body({}, {<<"d">>}, {}), Body({<<" ">>}, {}, {}), Body({<<"t">>}, {}, {"bogus"}) }

\* items are created by the user and by the moderator, or by nobody
CreateHeaders(now) ==
  {Bearer(generateAccessToken(p, now)) : p \in {c \in ItemCallers : c.role # "admin"}}
  \cup {NoHeader}

\* a second passes
ItemsTick ==
  /\ ticks < MaxTicks
  /\ clock' = clock + 1
  /\ ticks' = ticks + 1
  /\ UNCHANGED <<users, usersByEmail, sessions, sessionSeq, req, lines, started, oauthVars, gate, env, call, itemVars>>

\* JSON bodies of PUT: no field, each field alone, every field, a status that
\* is none
PutBodies ==
  { Body({}, {}, {}), Body({<<"u"," ">>}, {}, {}), Body({}, {<<"e">>}, {}),
    Body({}, {}, {"archived"}), Body({<<"u">>}, {<<"e">>}, {"archived"}),
    Body({}, {}, {"bogus"}) }

\* GET /api/items
ItemsListReceive(s, authHeader) ==
  /\ CanStart(s)
  /\ started' = started + 1
  /\ req' = [req EXCEPT ![s] =
               Running("items.list", "auth", [authHeader |-> authHeader], [before |-> items])]
  /\ UNCHANGED <<users, usersByEmail, sessions, sessionSeq, clock, lines, ticks, oauthVars, gate, env, call, itemVars>>

\* optionalAuth, then findByUserId(user.sub) or findAll
ItemsListRun(s) ==
  LET r == req[s]
      user == optionalAuth(r.body.authHeader, clock)
      itemsList == IF user # {} THEN ItemsOfUser(The(user).sub) ELSE ItemsAll
  IN /\ r.kind = "items.list" /\ r.pc = "auth"
     /\ req' = [req EXCEPT ![s] =
                  Reply([r EXCEPT !.local = [before |-> r.local.before, user |-> user,
                                             at |-> clock]],
                        200, "", {itemsList})]
     /\ UNCHANGED <<users, usersByEmail, sessions, sessionSeq, clock, lines, started, ticks, oauthVars, gate, env, call, itemVars>>

\* POST /api/items
ItemsCreateReceive(s, authHeader, body) ==
  /\ CanStart(s)
  /\ itemSeq < MaxItems
  /\ started' = started + 1
  /\ req' = [req EXCEPT ![s] =
               Running("items.create", "auth", [authHeader |-> authHeader, json |-> body],
                       [before |-> items])]
  /\ UNCHANGED <<users, usersByEmail, sessions, sessionSeq, clock, lines, ticks, oauthVars, gate, env, call, itemVars>>

\* requireAuth, the validations, itemRepository.create and the 201 answer
ItemsCreateRun(s) ==
  LET r == req[s]
      auth == requireAuth(r.body.authHeader, clock)
      body == r.body.json
      id == generateItemId
      item == NewItem(id, [userId |-> The(auth.user).sub, title |-> trimmed(body.title),
                           description |-> IF trimmed(body.description) \in {{}, {<<>>}}
                                           THEN {<<>>} ELSE trimmed(body.description),
                           status |-> body.status], clock)
  IN /\ r.kind = "items.create" /\ r.pc = "auth"
     /\ IF auth.status # 0
        THEN /\ req' = [req EXCEPT ![s] = Reply(r, auth.status, auth.error, {})]
             /\ UNCHANGED itemVars
        ELSE IF trimmed(body.title) \in {{}, {<<>>}}
        THEN /\ req' = [req EXCEPT ![s] = Reply(r, 400, "Title is required", {})]
             /\ UNCHANGED itemVars
        ELSE IF body.status # {} /\ ~isItemStatus(The(body.status))
        THEN /\ req' = [req EXCEPT ![s] = Reply(r, 400, "Invalid status", {})]
             /\ UNCHANGED itemVars
        ELSE /\ items' = (id :> item) @@ items
             /\ itemSeq' = id
             /\ req' = [req EXCEPT ![s] = Reply(r, 201, "", {item})]
     /\ UNCHANGED <<users, usersByEmail, sessions, sessionSeq, clock, lines, started, ticks, oauthVars, gate, env, call>>

\* PUT /api/items/:id and DELETE /api/items/:id
ItemsChangeReceive(s, kind, authHeader, id, body) ==
  /\ CanStart(s)
  /\ started' = started + 1
  /\ req' = [req EXCEPT ![s] =
               Running(kind, "auth", [authHeader |-> authHeader, id |-> id, json |-> body],
                       [before |-> items])]
  /\ UNCHANGED <<users, usersByEmail, sessions, sessionSeq, clock, lines, ticks, oauthVars, gate, env, call, itemVars>>

\* requireAuth, isValidItemId, itemRepository.findById, assertResourceOwner and,
\* for PUT, the validation of the body
ItemsChangeFind(s) ==
  LET r == req[s]
      q == [r EXCEPT !.local = [before |-> r.local.before, at |-> clock]]
      auth == requireAuth(r.body.authHeader, clock)
      id == r.body.id
  IN /\ r.kind \in {"items.put", "items.delete"} /\ r.pc = "auth"
     /\ req' = [req EXCEPT ![s] =
          IF auth.status # 0 THEN Reply(q, auth.status, auth.error, {})
          ELSE IF ~isValidItemId(id) THEN Reply(q, 400, "Invalid item ID format", {})
          ELSE IF id.suffix \notin DOMAIN items THEN Reply(q, 404, "Item not found", {})
          ELSE IF assertResourceOwner(items[id.suffix].userId, The(auth.user)) # 0
          THEN Reply(q, 403, "You do not have permission to access this resource", {})
          ELSE IF r.kind = "items.put" /\ r.body.json.status # {}
                  /\ ~isItemStatus(The(r.body.json.status))
          THEN Reply(q, 400, "Invalid status", {})
          ELSE Running(r.kind, "found", r.body, q.local)]
     /\ UNCHANGED <<users, usersByEmail, sessions, sessionSeq, clock, lines, started, ticks, oauthVars, gate, env, call, itemVars>>

\* itemRepository.update and the 200 answer; update answers null for an item
\* that is gone
ItemsPutUpdate(s) ==
  LET r == req[s]
      id == r.body.id.suffix
      body == r.body.json
      data == [title |-> trimmed(body.title), description |-> trimmed(body.description),
               status |-> body.status]
  IN /\ r.kind = "items.put" /\ r.pc = "found"
     /\ IF id \in DOMAIN items
        THEN LET updated == Updated(items[id], data, clock)
             IN /\ items' = [items EXCEPT ![id] = updated]
                /\ req' = [req EXCEPT ![s] = Reply(r, 200, "", {updated})]
        ELSE /\ items' = items
             /\ req' = [req EXCEPT ![s] = Reply(r, 200, "", {})]
     /\ UNCHANGED <<users, usersByEmail, sessions, sessionSeq, clock, lines, started, ticks, oauthVars, gate, env, call, itemSeq>>

\* itemRepository.delete and the 200 answer
ItemsDeleteRun(s) ==
  LET r == req[s]
      id == r.body.id.suffix
  IN /\ r.kind = "items.delete" /\ r.pc = "found"
     /\ items' = [i \in DOMAIN items \ {id} |-> items[i]]
     /\ req' = [req EXCEPT ![s] = Reply(r, 200, "", {})]
     /\ UNCHANGED <<users, usersByEmail, sessions, sessionSeq, clock, lines, started, ticks, oauthVars, gate, env, call, itemSeq>>

NextItems ==
  \/ \E s \in Slots : \E h \in ItemHeaders(clock) : ItemsListReceive(s, h)
  \/ \E s \in Slots : ItemsListRun(s)
  \/ \E s \in Slots : \E h \in CreateHeaders(clock) : \E b \in CreateBodies :
       ItemsCreateReceive(s, h, b)
  \/ \E s \in Slots : ItemsCreateRun(s)
  \/ \E s \in Slots : \E h \in ItemHeaders(clock) : \E id \in ItemIdParams : \E b \in PutBodies :
       ItemsChangeReceive(s, "items.put", h, id, b)
  \/ \E s \in Slots : \E h \in ItemHeaders(clock) : \E id \in ItemIdParams :
       ItemsChangeReceive(s, "items.delete", h, id, Body({}, {}, {}))
  \/ \E s \in Slots : ItemsChangeFind(s)
  \/ \E s \in Slots : ItemsPutUpdate(s)
  \/ \E s \in Slots : ItemsDeleteRun(s)
  \/ \E s \in Slots : Complete(s)
  \/ ItemsTick

SpecItems == Init /\ [][NextItems]_vars

\* ------------------------------------------------------------------------
\* The password and token services called directly, under any environment
\* ------------------------------------------------------------------------
Chars(c, n) == [i \in 1..n |-> c]

\* passwords around both length limits and with each character class missing
LibPasswords ==
  { <<>>, PasswordWeak, Abcdefg1, Password123,
    <<"A","b","c","d","e","f","1">>,
    <<"A","B","C","D","E","F","G","1">>,
    <<"a","b","c","d","e","f","g","1">>,
    <<"A","b","c","d","e","f","g","h">>,
    <<"1","2","3","4","5","6","7","8">>,
    <<"a","1">>,
    Chars(" ", MinLength),
    Abcdefg1 \o Chars("a", MaxLength - MinLength),
    Abcdefg1 \o Chars("a", MaxLength - MinLength + 1),
    Chars("a", MaxLength + 1) }

LibPayloads == {[userId |-> 1, email |-> EmailAB, role |-> r] : r \in {"user", "admin"}}

\* tokens a caller can present: signed with any of the secrets or with a key of
\* its own, of either type, still running or expired, or no JWS at all
LibTokens(now) ==
  { JWS(k, p, t.type, i, t.lifetime) :
      k \in (LibSecrets \ {""}) \cup {DefaultJwtSecret, "attacker-key"},
      p \in LibPayloads,
      t \in { [type |-> "access", lifetime |-> ACCESS_TOKEN_EXPIRY],
              [type |-> "refresh", lifetime |-> REFRESH_TOKEN_EXPIRY] },
      i \in {now, now - ACCESS_TOKEN_EXPIRY} }
  \cup {GarbageToken}

\* Authorization headers a caller can send: none, the empty string, 'Bearer <t>'
\* for every token and for the empty token ('Bearer '), other spellings of the
\* scheme, another scheme, 'Bearer' alone, 'Bearer  <t>' and 'Bearer <t> <t>'
LibHeaders(now) ==
  LET a == JWS(DefaultJwtSecret, [userId |-> 1, email |-> EmailAB, role |-> "user"],
               "access", now, ACCESS_TOKEN_EXPIRY)
  IN {Bearer(t) : t \in LibTokens(now) \cup {EmptyToken}}
     \cup { NoHeader,
            [defined |-> TRUE, scheme |-> <<>>, rest |-> <<>>],
            [defined |-> TRUE, scheme |-> <<"b","e","a","r","e","r">>, rest |-> <<a>>],
            [defined |-> TRUE, scheme |-> <<"B","E","A","R","E","R">>, rest |-> <<a>>],
            [defined |-> TRUE, scheme |-> <<"B","a","s","i","c">>, rest |-> <<a>>],
            [defined |-> TRUE, scheme |-> <<"B","e","a","r","e","r","s">>, rest |-> <<a>>],
            [defined |-> TRUE, scheme |-> BearerScheme, rest |-> <<>>],
            [defined |-> TRUE, scheme |-> BearerScheme, rest |-> <<EmptyToken, a>>],
            [defined |-> TRUE, scheme |-> BearerScheme, rest |-> <<a, a>>] }

InitLib ==
  /\ EmptyStores
  /\ env \in LibEnvs
  /\ req = [s \in {1} |-> Idle]
  /\ gate = NoGate

libFrame == <<users, usersByEmail, sessions, sessionSeq, clock, req, lines, started, ticks,
              oauthVars, gate, env, itemVars>>

Called(fn, args, result) ==
  /\ call' = [fn |-> fn, args |-> args, result |-> result]
  /\ UNCHANGED libFrame

CallValidatePassword(password) ==
  Called("validatePassword", <<password>>, validatePassword(password))

CallGenerateAccessToken(payload) ==
  Called("generateAccessToken", <<payload>>, generateAccessToken(payload, clock))

CallGenerateRefreshToken(payload) ==
  Called("generateRefreshToken", <<payload>>, generateRefreshToken(payload, clock))

CallGenerateTokenPair(payload) ==
  Called("generateTokenPair", <<payload>>, generateTokenPair(payload, clock))

CallVerifyToken(token) ==
  Called("verifyToken", <<token>>, verifyToken(token, clock))

CallVerifyAccessToken(token) ==
  Called("verifyAccessToken", <<token>>, verifyAccessToken(token, clock))

CallVerifyRefreshToken(token) ==
  Called("verifyRefreshToken", <<token>>, verifyRefreshToken(token, clock))

CallExtractBearerToken(authHeader) ==
  Called("extractBearerToken", <<authHeader>>, extractBearerToken(authHeader))

NextLib ==
  \/ \E password \in LibPasswords : CallValidatePassword(password)
  \/ \E authHeader \in LibHeaders(clock) : CallExtractBearerToken(authHeader)
  \/ \E payload \in LibPayloads :
       \/ CallGenerateAccessToken(payload)
       \/ CallGenerateRefreshToken(payload)
       \/ CallGenerateTokenPair(payload)
  \/ \E token \in LibTokens(clock) :
       \/ CallVerifyToken(token)
       \/ CallVerifyAccessToken(token)
       \/ CallVerifyRefreshToken(token)
  \/ Tick

SpecLib == InitLib /\ [][NextLib]_vars

\* ------------------------------------------------------------------------
\* Claims
\* ------------------------------------------------------------------------
Done(s, kind) == req[s].kind = kind /\ req[s].pc = "done"

\* C1: starting from a store with no user for a@b.com, registering
\* {email: "a@b.com", password: "Password123", name: "A"} answers 201 with a
\* user that has emailVerified = false and role = "user" and with non-empty
\* access and refresh tokens.
C1_RegisterScenario ==
  \A s \in Slots :
    ( /\ Done(s, "register")
      /\ req[s].body = [email |-> EmailAB, password |-> Password123, name |-> <<"A">>]
      /\ req[s].local.fresh )
    => /\ req[s].status = 201
       /\ req[s].data # {}
       /\ The(req[s].data).user.emailVerified = FALSE
       /\ The(req[s].data).user.role = "user"
       /\ The(req[s].data).accessToken # {}
       /\ The(req[s].data).refreshToken # {}

\* C2: in every reachable state, for every interleaving of register requests,
\* no two stored users have the same lowercase-normalized email.
C2_EmailUnique ==
  \A i \in DOMAIN users : \A j \in DOMAIN users :
    i # j => toLowerCase(users[i].email) # toLowerCase(users[j].email)

\* C3: once the session created by a login has been deleted (by logout or by
\* revoking it), a later refresh with the refresh token issued by that login
\* is rejected and yields no new access token.
C3_DeletedSessionRevokesRefresh ==
  \A s \in Slots :
    (Done(s, "refresh") /\ req[s].local.revoked)
    => (req[s].status = 401 /\ req[s].data = {})

\* C4: after a successful logout of user U no session of U is left, however
\* many sessions U had, and every session of another user is still present
\* and unchanged.
C4_LogoutAllDevices ==
  \A s \in Slots :
    (Done(s, "logout") /\ req[s].status = 200)
    => LET U == req[s].local.user.sub
           before == req[s].local.before
       IN /\ \A i \in DOMAIN sessions : sessions[i].userId # U
          /\ \A i \in DOMAIN before :
               before[i].userId # U => (i \in DOMAIN sessions /\ sessions[i] = before[i])

\* a logout that removed two sessions of its user and left another user's session
C4_Witness ==
  \E s \in Slots :
    /\ Done(s, "logout") /\ req[s].status = 200
    /\ req[s].local.count >= 2
    /\ \E i \in DOMAIN sessions : sessions[i].userId # req[s].local.user.sub

\* C5: for every issued token pair the refresh token is rejected where an
\* access token is required (verifyAccessToken, requireAuth: 401) and the
\* access token is rejected where a refresh token is required
\* (verifyRefreshToken, POST /refresh: 401), while within its lifetime each
\* token is accepted by the verifier of its own kind with sub equal to the
\* userId of the payload it was issued for.
C5_TokenKindsNotConfused ==
  /\ \A i \in DOMAIN lines :
       LET a == lines[i].accessToken
           t == lines[i].refreshToken
       IN /\ ~verifyAccessToken(t, clock).ok
          /\ ~verifyRefreshToken(a, clock).ok
          /\ requireAuth(Bearer(t), clock).status = 401
          /\ clock < a.exp => ( /\ verifyAccessToken(a, clock).ok
                                /\ verifyAccessToken(a, clock).payload.sub = lines[i].userId )
          /\ clock < t.exp => ( /\ verifyRefreshToken(t, clock).ok
                                /\ verifyRefreshToken(t, clock).payload.sub = lines[i].userId )
  /\ \A s \in Slots :
       /\ ( /\ req[s].kind \in {"logout", "revoke"} /\ req[s].pc # "auth"
            /\ req[s].body.authHeader \in {Bearer(t) : t \in KnownRefreshTokens} )
          => (req[s].pc = "done" /\ req[s].status = 401)
       /\ ( /\ req[s].kind = "refresh" /\ req[s].pc # "verifying"
            /\ req[s].body.refreshToken \in {{a} : a \in KnownAccessTokens} )
          => (req[s].pc = "done" /\ req[s].status = 401 /\ req[s].data = {})
       /\ ( /\ Done(s, "logout")
            /\ \E i \in DOMAIN lines : /\ req[s].body.authHeader = Bearer(lines[i].accessToken)
                                       /\ clock < lines[i].accessToken.exp )
          => ( /\ req[s].status = 200
               /\ \E i \in DOMAIN lines : /\ req[s].body.authHeader = Bearer(lines[i].accessToken)
                                          /\ req[s].local.user.sub = lines[i].userId )

\* an unexpired refresh token was presented as the bearer token of a logout
C5_Witness ==
  \E s \in Slots :
    /\ Done(s, "logout")
    /\ req[s].body.authHeader \in {Bearer(t) : t \in KnownRefreshTokens}
    /\ clock < The(extractBearerToken(req[s].body.authHeader)).exp
    /\ req[s].status = 401

\* what the claims call a valid access token in a well-formed Authorization header
ValidAccess(t, now) ==
  /\ t.form = "jwt" /\ t.alg = ALGORITHM /\ t.key = SecretKey
  /\ t.iss = ISSUER /\ t.aud = AUDIENCE
  /\ t.sub # 0 /\ t.iat # 0 /\ now < t.exp
  /\ t.type = "access"

WellFormedBearer(h) ==
  /\ h.defined
  /\ Len(h.scheme) = 6
  /\ \A i \in 1..6 : h.scheme[i] \in {BearerScheme[i], <<"b","E","A","R","E","R">>[i]}
  /\ Len(h.rest) = 1

\* C6: with a missing or malformed Authorization header, or an invalid,
\* expired or wrong-type token, requireAuth answers 401, attaches no user and
\* the guarded handler never runs; the handler runs only with the decoded
\* payload of a valid access token attached as 'user'.
C6_RequireAuthStrictGate ==
  (gate.pc \notin {"idle", "auth"} /\ gate.route.auth)
  => LET ok == WellFormedBearer(gate.header) /\ ValidAccess(gate.header.rest[1], clock)
     IN /\ ~ok => (gate.pc = "done" /\ gate.status = 401 /\ gate.ctx = {} /\ ~gate.ran)
        /\ gate.ran =>
             /\ ok
             /\ gate.seen # {}
             /\ LET t == gate.header.rest[1]
                IN The(gate.seen) = [sub |-> t.sub, email |-> t.email, role |-> t.role,
                                     type |-> "access", iat |-> t.iat, exp |-> t.exp]

\* a refresh token one second before an access token would expire was refused
C6_Witness ==
  /\ gate.pc = "done" /\ gate.route.auth /\ gate.status = 401
  /\ WellFormedBearer(gate.header)
  /\ gate.header.rest[1].type = "refresh"
  /\ gate.header.rest[1].key = SecretKey
  /\ gate.header.rest[1].iat = clock - (ACCESS_TOKEN_EXPIRY - 1)

\* C7: assertResourceOwner(ownerId, ctx) passes iff ctx.user.sub = ownerId or
\* ctx.user.role = 'admin'; in every other combination (moderator included)
\* it throws a 403.
C7_AssertResourceOwner ==
  (gate.pc = "done" /\ gate.route.owner # {} /\ gate.ran)
  => LET user == The(gate.seen)
         ownerId == The(gate.route.owner)
     IN /\ gate.status \in {200, 403}
        /\ gate.status = 200 <=> (user.sub = ownerId \/ user.role = "admin")

\* a moderator who is not the owner was refused
C7_Witness ==
  /\ gate.pc = "done" /\ gate.route.owner # {} /\ gate.ran
  /\ The(gate.seen).role = "moderator"
  /\ The(gate.seen).sub # The(gate.route.owner)
  /\ gate.status = 403

\* C8: behind requireAuth and requireRole(allowedRoles) the handler runs only
\* when the attached user's role is in allowedRoles; a role outside the set is
\* answered 403, no attached user (requireRole without requireAuth) is
\* answered 401, and in both cases the handler does not run.
C8_RequireRole ==
  (gate.pc \notin {"idle", "auth", "role"} /\ gate.route.allowed # {})
  => LET allowedRoles == The(gate.route.allowed)
     IN /\ gate.ran => (gate.seen # {} /\ The(gate.seen).role \in allowedRoles)
        /\ (gate.ctx # {} /\ The(gate.ctx).role \notin allowedRoles)
             => (gate.pc = "done" /\ gate.status = 403 /\ ~gate.ran)
        /\ ~gate.route.auth => (gate.pc = "done" /\ gate.status = 401 /\ ~gate.ran)

\* a moderator was refused by requireAdmin
C8_Witness ==
  /\ gate.pc = "done" /\ gate.route.auth /\ gate.route.allowed = {{"admin"}}
  /\ gate.ctx # {} /\ The(gate.ctx).role = "moderator"
  /\ gate.status = 403 /\ ~gate.ran

\* the user a login for this e-mail address would have to be
AccountsFor(email) == {id \in DOMAIN users : users[id].email = toLowerCase(email)}

\* a login that must fail: no account for the address, an account without
\* a password (created by social login), or a password that is not the account's
LoginMustFail(body) ==
  \/ AccountsFor(body.email) = {}
  \/ \E id \in AccountsFor(body.email) :
       \/ users[id].passwordHash = {}
       \/ \E h \in users[id].passwordHash : h.pw # body.password

\* C9: a login with an unknown e-mail, with the e-mail of an account that has
\* no password, or with a wrong password is answered 401 'Invalid email or
\* password' with no further detail and no data, so the three answers are the
\* same, and it leaves every store as it found it.
C9_LoginFailuresIndistinguishable ==
  \A s \in Slots :
    (Done(s, "login") /\ LoginMustFail(req[s].body))
      => /\ req[s].status = 401
         /\ req[s].error = "Invalid email or password"
         /\ req[s].detail = <<>>
         /\ req[s].data = {}
         /\ Snapshot = req[s].local.snap

\* a login on an account created by social login has been refused
C9_Witness ==
  \E s \in Slots :
    /\ Done(s, "login")
    /\ \E id \in AccountsFor(req[s].body.email) : users[id].passwordHash = {}
    /\ req[s].status = 401

CallbackPast(s) == req[s].kind = "callback" /\ req[s].pc # "recv"

\* a callback whose state parameter is missing, has no stored counterpart or
\* differs from it is answered 400 before any call to the provider, with
\* every store as the request found it
StateCheckFirst(s) ==
  (\/ req[s].body.state = {}
   \/ req[s].body.storedState = {}
   \/ req[s].body.state # req[s].body.storedState)
    => /\ req[s].pc = "done"
       /\ req[s].status = 400
       /\ req[s].local.calls = 0
       /\ Snapshot = req[s].local.snap

\* C10: a callback of any provider whose state parameter is missing, whose
\* oauth_state cookie is missing, or whose state differs from the cookie is
\* rejected before any call to the provider and with every store unchanged;
\* every callback, rejected or not, deletes the oauth_state cookie and, for
\* the providers whose authorize step sets one, the oauth_code_verifier cookie.
C10_StateCheckAndCookiesCleared ==
  \A s \in Slots :
    CallbackPast(s)
      => /\ StateCheckFirst(s)
         /\ "oauth_state" \in req[s].local.cleared
         /\ AuthorizeCookies(req[s].body.provider) \subseteq req[s].local.cleared

\* a callback with a state that differs from the stored one has been
\* answered while an account existed to be changed
C10_Witness ==
  \E s \in Slots :
    /\ Done(s, "callback")
    /\ req[s].body.state # {} /\ req[s].body.storedState # {}
    /\ req[s].body.state # req[s].body.storedState
    /\ req[s].status = 400
    /\ req[s].local.cleared # {}
    /\ users # <<>>

\* C11: every callback that fails, whatever the cause, is answered by a
\* redirect to the frontend error page tagged with the provider name, never
\* by a JSON error response.
C11_CallbackFailuresRedirect ==
  \A s \in Slots :
    (Done(s, "callback") /\ req[s].data = {})
      => /\ req[s].status = 302
         /\ req[s].error = ""
         /\ req[s].detail = <<"/auth/error", req[s].body.provider>>

Values(f) == {f[x] : x \in DOMAIN f}

\* the stored links of an identity, and the stored users of an address
LinksOf(accounts, provider, providerAccountId) ==
  {a \in Values(accounts) : a.provider = provider /\ a.providerAccountId = providerAccountId}

UsersWithEmail(us, email) == {u \in Values(us) : u.email = toLowerCase(email)}

\* a callback answered with tokens
CallbackSucceeded(s) == Done(s, "callback") /\ req[s].data # {}

\* the request created one session, for this user, and its tokens name the user
OneSessionFor(s, userId) ==
  LET before == req[s].local.snap.sessions
      new == DOMAIN sessions \ DOMAIN before
  IN /\ Cardinality(new) = 1
     /\ \A id \in new : sessions[id].userId = userId
     /\ \A id \in DOMAIN before : id \in DOMAIN sessions /\ sessions[id] = before[id]
     /\ \A d \in req[s].data :
          /\ d.user.id = userId
          /\ \A t \in d.accessToken \cup d.refreshToken : t.sub = userId

\* first branch: the link exists; its user is used, only its tokens change
ResolvedKnown(s, link) ==
  LET snap == req[s].local.snap
      ui == req[s].local.userInfo
  IN /\ users = snap.users
     /\ DOMAIN oauthAccounts = DOMAIN snap.oauthAccounts
     /\ oauthByProvider = snap.oauthByProvider
     /\ \A id \in DOMAIN oauthAccounts :
          IF id = link.id
          THEN /\ oauthAccounts[id].userId = link.userId
               /\ oauthAccounts[id].provider = link.provider
               /\ oauthAccounts[id].providerAccountId = link.providerAccountId
               /\ oauthAccounts[id].accessToken = ui.accessToken
          ELSE oauthAccounts[id] = snap.oauthAccounts[id]
     /\ OneSessionFor(s, link.userId)

\* one link was added, for this identity and this user
OneLinkAdded(s, userId) ==
  LET snap == req[s].local.snap
      ui == req[s].local.userInfo
      new == DOMAIN oauthAccounts \ DOMAIN snap.oauthAccounts
  IN /\ Cardinality(new) = 1
     /\ \A id \in new :
          /\ oauthAccounts[id].userId = userId
          /\ oauthAccounts[id].provider = ui.provider
          /\ oauthAccounts[id].providerAccountId = ui.providerAccountId
          /\ oauthAccounts[id].accessToken = ui.accessToken
     /\ \A id \in DOMAIN snap.oauthAccounts :
          id \in DOMAIN oauthAccounts /\ oauthAccounts[id] = snap.oauthAccounts[id]

\* second branch: a user with the e-mail exists; it is linked and verified
ResolvedByEmail(s, user) ==
  LET snap == req[s].local.snap
  IN /\ DOMAIN users = DOMAIN snap.users
     /\ \A id \in DOMAIN users :
          users[id] = IF id = user.id THEN [user EXCEPT !.emailVerified = TRUE]
                      ELSE snap.users[id]
     /\ OneLinkAdded(s, user.id)
     /\ OneSessionFor(s, user.id)

\* third branch: a user without password is created, verified, and linked
ResolvedNew(s) ==
  LET snap == req[s].local.snap
      ui == req[s].local.userInfo
      new == DOMAIN users \ DOMAIN snap.users
  IN /\ Cardinality(new) = 1
     /\ \A id \in DOMAIN snap.users : id \in DOMAIN users /\ users[id] = snap.users[id]
     /\ \A id \in new :
          /\ users[id].passwordHash = {}
          /\ users[id].emailVerified = TRUE
          /\ users[id].role = "user"
          /\ \A e \in ui.email : users[id].email = toLowerCase(e)
          /\ OneLinkAdded(s, id)
          /\ OneSessionFor(s, id)

\* C12: a callback that succeeds has resolved the identity by exactly one of
\* three branches, chosen by the stores as the request found them: the
\* existing link's user with only the link's tokens replaced; else the
\* existing user of that e-mail, newly linked and marked verified; else a new
\* user without password hash, verified, role 'user', newly linked. In each
\* branch one session is created for that user and the tokens carry its id.
C12_AccountResolution ==
  \A s \in Slots :
    CallbackSucceeded(s) =>
      LET snap == req[s].local.snap
          ui == req[s].local.userInfo
          links == LinksOf(snap.oauthAccounts, ui.provider, ui.providerAccountId)
          known == UNION {UsersWithEmail(snap.users, e) : e \in ui.email}
      IN IF links # {} THEN \E l \in links : ResolvedKnown(s, l)
         ELSE IF known # {} THEN \E u \in known : ResolvedByEmail(s, u)
         ELSE ResolvedNew(s)

\* a callback has linked a registered, unverified user by its e-mail
C12_Witness ==
  \E s \in Slots :
    /\ CallbackSucceeded(s)
    /\ LinksOf(req[s].local.snap.oauthAccounts, req[s].local.userInfo.provider,
               req[s].local.userInfo.providerAccountId) = {}
    /\ \E e \in req[s].local.userInfo.email :
         \E u \in UsersWithEmail(req[s].local.snap.users, e) :
           ~u.emailVerified /\ users[u.id].emailVerified

\* C13: in every reachable state, callbacks being interleaved at their
\* awaits and accounts being deleted between them, at most one stored OAuth
\* account has a given (provider, providerAccountId), every stored account is
\* the one the provider index gives for its pair, and the index names no
\* account that is not stored.
C13_ProviderIdentityUnique ==
  /\ \A a, b \in DOMAIN oauthAccounts :
       (/\ oauthAccounts[a].provider = oauthAccounts[b].provider
        /\ oauthAccounts[a].providerAccountId = oauthAccounts[b].providerAccountId)
         => a = b
  /\ \A a \in DOMAIN oauthAccounts :
       LET key == <<oauthAccounts[a].provider, oauthAccounts[a].providerAccountId>>
       IN key \in DOMAIN oauthByProvider /\ oauthByProvider[key] = a
  /\ \A k \in DOMAIN oauthByProvider : oauthByProvider[k] \in DOMAIN oauthAccounts

\* two callbacks for one identity, both begun while it had no link, have
\* both been answered with tokens
C13_Witness ==
  \E s, t \in Slots :
    /\ s # t
    /\ CallbackSucceeded(s) /\ CallbackSucceeded(t)
    /\ req[s].local.userInfo.provider = req[t].local.userInfo.provider
    /\ req[s].local.userInfo.providerAccountId = req[t].local.userInfo.providerAccountId
    /\ req[s].local.snap.oauthAccounts = <<>> /\ req[t].local.snap.oauthAccounts = <<>>
    /\ Cardinality(DOMAIN oauthAccounts) = 1

\* C14: in every reachable state, after any sequence of callbacks, no two
\* stored OAuth accounts have the same (userId, provider): a user has at most
\* one linked account per provider.
C14_OneLinkPerUserAndProvider ==
  \A a, b \in DOMAIN oauthAccounts :
    (/\ oauthAccounts[a].userId = oauthAccounts[b].userId
     /\ oauthAccounts[a].provider = oauthAccounts[b].provider)
      => a = b

C16_RefreshUserGone ==
  \A s \in Slots :
    (/\ Done(s, "refresh")
     /\ \E t \in req[s].body.refreshToken :
          /\ verifyRefreshToken(t, clock).ok
          /\ t.sub \notin DOMAIN users)
      => req[s].status = 404

C18_CallbackPathReachesCallback ==
  \A s \in Slots :
    \A p \in Providers :
      /\ (req[s].kind # "idle" /\ req[s].body.path = <<"api", "auth", "callback", p>>)
           => /\ req[s].kind = "callback"
              /\ req[s].body.provider = p
              /\ req[s].pc = "done" => req[s].status = 302
      /\ (req[s].kind # "idle" /\ req[s].body.path = <<"api", "auth", "oauth", p>>)
           => req[s].kind = "authorize" /\ req[s].body.provider = p

\* C19: validatePassword answers valid exactly for a password of 8 to 128
\* characters holding an A-Z letter, an a-z letter and a digit; for an invalid
\* password errors holds exactly one entry for each violated rule, all of them:
\* "password" yields exactly 2 errors, "Abcdefg1" is valid.
Has(password, class) == \E i \in 1..Len(password) : password[i] \in class

ViolatedRules(password) ==
  {m \in {ErrTooShort, ErrTooLong, ErrNoUpper, ErrNoLower, ErrNoNumber} :
     \/ m = ErrTooShort /\ Len(password) < 8
     \/ m = ErrTooLong /\ Len(password) > 128
     \/ m = ErrNoUpper /\ ~Has(password, Range(UpperCase))
     \/ m = ErrNoLower /\ ~Has(password, Range(LowerCase))
     \/ m = ErrNoNumber /\ ~Has(password, Digits)}

Count(q, m) == Cardinality({i \in 1..Len(q) : q[i] = m})

C19_ValidatePassword ==
  (call.fn = "validatePassword") =>
    LET password == call.args[1]
        r == call.result
    IN /\ r.valid <=> /\ 8 <= Len(password) /\ Len(password) <= 128
                      /\ Has(password, Range(UpperCase))
                      /\ Has(password, Range(LowerCase))
                      /\ Has(password, Digits)
       /\ r.valid <=> (ViolatedRules(password) = {})
       /\ Len(r.errors) = Cardinality(ViolatedRules(password))
       /\ \A m \in ViolatedRules(password) : Count(r.errors, m) = 1
       /\ (password = PasswordWeak) => (~r.valid /\ Len(r.errors) = 2)
       /\ (password = Abcdefg1) => r.valid

C19_Witness ==
  /\ call.fn = "validatePassword"
  /\ call.args[1] = PasswordWeak
  /\ call.result.errors = <<ErrNoUpper, ErrNoNumber>>

\* C20: when the configured JWT secret is shorter than 32 characters, every
\* issuance (generateAccessToken, generateRefreshToken, generateTokenPair) and
\* every verification fails with an error, from the first use of the secret on:
\* no token is signed and none is accepted.
TokenCalls ==
  {"generateAccessToken", "generateRefreshToken", "generateTokenPair",
   "verifyToken", "verifyAccessToken", "verifyRefreshToken"}

WeakSecret == env.JWT_SECRET # "" /\ Len(env.JWT_SECRET) < 32

C20_WeakSecretRefused ==
  (WeakSecret /\ call.fn \in TokenCalls) =>
    /\ DOMAIN call.result = {"ok", "error"}
    /\ ~call.result.ok
    /\ call.result.error = "JWT_SECRET must be at least 32 characters"

C20_Witness ==
  /\ WeakSecret
  /\ Len(env.JWT_SECRET) = 31
  /\ call.fn = "verifyAccessToken"
  /\ call.args[1].key = env.JWT_SECRET
  /\ call.args[1].type = "access"
  /\ call.args[1].exp > clock
  /\ ~call.result.ok

\* C21: extractBearerToken returns the token only for a header '<scheme> <token>'
\* whose scheme is 'bearer' in any letter case and whose token is not empty, and
\* null for every other input: no header, the empty header, another scheme, a
\* scheme without a token ('Bearer', 'Bearer '), or more than one part after
\* the scheme.
C21_ExtractBearerToken ==
  (call.fn = "extractBearerToken") =>
    LET h == call.args[1]
        wellFormed == /\ h.defined
                      /\ toLowerCase(h.scheme) = <<"b","e","a","r","e","r">>
                      /\ Len(h.rest) = 1
                      /\ h.rest[1].form # "empty"
    IN call.result = IF wellFormed THEN {h.rest[1]} ELSE {}

\* C22: deleteExpired removes exactly the sessions whose expiresAt is before the
\* current time and no session that has not expired yet, whatever login, logout
\* and revoke requests are in flight; a sweep following another sweep with no
\* session expiring between the two removes 0 sessions.
ExpiredAt(stored, now) == {i \in DOMAIN stored : stored[i].expiresAt < now}

C22_DeleteExpired ==
  (call.fn = "deleteExpired") =>
    LET expired == ExpiredAt(call.before, call.now)
    IN /\ DOMAIN call.after = DOMAIN call.before \ expired
       /\ \A i \in DOMAIN call.after : call.after[i] = call.before[i]
       /\ call.result = Cardinality(expired)
       /\ \A t \in call.prev :
            (ExpiredAt(call.before, call.now) \subseteq ExpiredAt(call.before, t))
              => call.result = 0

\* a sweep right after the sweep that removed a session: the session expiring at
\* this very moment is still there and nothing is removed
C22_Witness ==
  /\ call.fn = "deleteExpired"
  /\ call.prev = {call.now}
  /\ call.result = 0
  /\ \E i \in DOMAIN call.before : call.before[i].expiresAt = call.now
  /\ \E i \in DOMAIN lines : i \notin DOMAIN call.before

\* C23: every register, password login and OAuth callback (of any provider)
\* that hands a refresh token to the client has created exactly one new session,
\* owned by the user of the response and expiring 7 days after its creation, so
\* the refresh token has its session when it is issued; a rejected request has
\* created no session.
LoginKinds == {"register", "login", "callback"}

C23_SessionPerLogin ==
  \A s \in Slots :
    (req[s].pc = "done" /\ req[s].kind \in LoginKinds) =>
      LET before == req[s].local.snap.sessions
          new == DOMAIN sessions \ DOMAIN before
      IN /\ \A id \in DOMAIN before : id \in DOMAIN sessions /\ sessions[id] = before[id]
         /\ IF req[s].data = {}
            THEN new = {}
            ELSE /\ Cardinality(new) = 1
                 /\ \A id \in new : \A d \in req[s].data :
                      /\ sessions[id].userId = d.user.id
                      /\ d.user.id \in DOMAIN users
                      /\ sessions[id].expiresAt = sessions[id].createdAt + 7 * 24 * 60 * 60
                      /\ d.refreshToken = {lines[id].refreshToken}
                      /\ lines[id].refreshToken.sub = d.user.id

\* a password login and then a callback, each answered with tokens and each with
\* its own session
C23_Witness ==
  \E s \in Slots :
    /\ req[s].pc = "done" /\ req[s].kind = "callback" /\ req[s].data # {}
    /\ \E i \in DOMAIN sessions : \E j \in DOMAIN sessions :
         /\ i \in DOMAIN req[s].local.snap.sessions
         /\ j \notin DOMAIN req[s].local.snap.sessions
         /\ sessions[i].userId = sessions[j].userId
         /\ users[sessions[j].userId].passwordHash # {}

\* C24: optionalAuth never rejects: with no header, a malformed header, or an
\* invalid, expired or wrong-type token GET /api/items is answered all the same,
\* with no user attached and with all items of all users; a user is attached
\* only for a valid access token, and then only the caller's own items are listed.
C24_OptionalAuthNeverRejects ==
  \A s \in Slots :
    Done(s, "items.list") =>
      LET h == req[s].body.authHeader
          stored == req[s].local.before
          ok == WellFormedBearer(h) /\ ValidAccess(h.rest[1], req[s].local.at)
      IN /\ req[s].status = 200
         /\ (req[s].local.user # {}) <=> ok
         /\ \A u \in req[s].local.user :
              u.sub = h.rest[1].sub /\ u.role = h.rest[1].role /\ u.type = "access"
         /\ req[s].data =
              { IF ok
                THEN {stored[i] : i \in {j \in DOMAIN stored : stored[j].userId = h.rest[1].sub}}
                ELSE {stored[i] : i \in DOMAIN stored} }

\* two items of two owners; one of the owners lists them with its access token
\* and gets its own item only
C24_Witness ==
  \E s \in Slots :
    /\ Done(s, "items.list")
    /\ req[s].local.user # {}
    /\ Cardinality({items[i].userId : i \in DOMAIN items}) = 2
    /\ \E own \in req[s].data : Cardinality(own) = 1

\* C25: in every reachable state, the states between the steps of concurrently
\* running OAuth callbacks included, every user whose passwordHash is null owns
\* at least one stored OAuth account.
C25_PasswordlessUserHasLink ==
  \A u \in DOMAIN users :
    (users[u].passwordHash = {}) => \E a \in DOMAIN oauthAccounts : oauthAccounts[a].userId = u

\* C26: PUT and DELETE /api/items/:id modify or delete an item only when the
\* authenticated caller is the item's owner or has role 'admin'; for any other
\* caller the answer is 403 and the stored item and the set of items are as
\* before; an item's userId never changes.
C26_OwnerOrAdminOnly ==
  \A s \in Slots :
    (req[s].pc = "done" /\ req[s].kind \in {"items.put", "items.delete"}) =>
      LET h == req[s].body.authHeader
          id == req[s].body.id
          stored == req[s].local.before
          caller == h.rest[1]
          authed == WellFormedBearer(h) /\ ValidAccess(caller, req[s].local.at)
          found == id.prefix = "item" /\ id.suffix # 0 /\ id.suffix \in DOMAIN stored
          permitted == /\ authed /\ found
                       /\ caller.sub = stored[id.suffix].userId \/ caller.role = "admin"
      IN /\ (authed /\ found /\ ~permitted) => req[s].status = 403
         /\ ~permitted => items = stored
         /\ (req[s].status = 403) => (authed /\ found /\ ~permitted)
         /\ \A i \in DOMAIN stored \cap DOMAIN items : items[i].userId = stored[i].userId

\* a moderator who is not the owner asks to delete an item and is answered 403
C26_Witness ==
  \E s \in Slots :
    /\ Done(s, "items.delete")
    /\ req[s].status = 403
    /\ req[s].body.authHeader.rest[1].role = "moderator"
    /\ req[s].body.id.suffix \in DOMAIN items

\* C28: a successful PUT /api/items/:id changes only the fields supplied in the
\* body (title, description, status) and updatedAt; a field that is not supplied
\* keeps its value, and id, userId and createdAt never change.
C28_PutFrame ==
  \A s \in Slots :
    (Done(s, "items.put") /\ req[s].status = 200) =>
      LET id == req[s].body.id.suffix
          body == req[s].body.json
          old == req[s].local.before[id]
          new == items[id]
      IN /\ DOMAIN items = DOMAIN req[s].local.before
         /\ \A i \in DOMAIN items \ {id} : items[i] = req[s].local.before[i]
         /\ new.id = old.id /\ new.userId = old.userId /\ new.createdAt = old.createdAt
         /\ (body.title = {}) => (new.title = old.title)
         /\ (body.description = {}) => (new.description = old.description)
         /\ (body.status = {}) => (new.status = old.status)

\* C27: register and login are all-or-nothing: whenever POST /register or POST
\* /login is not answered with success (any 4xx or 5xx answer, a failure of
\* token generation or session creation after the validations included), the
\* user store and the session store are as they were before the request.
C27_AllOrNothing ==
  \A s \in Slots :
    (req[s].pc = "done" /\ req[s].kind \in {"register", "login"} /\ req[s].status >= 400) =>
      /\ users = req[s].local.snap.users
      /\ usersByEmail = req[s].local.snap.usersByEmail
      /\ sessions = req[s].local.snap.sessions

\* C29: all successful OAuth callbacks for one (provider, providerAccountId)
\* resolve to the same user, in every interleaving of callbacks running
\* together: the tokens and the session of a callback belong to the user that
\* owns the stored OAuth account of that identity, and no callback leaves an
\* extra user record behind for it.
C29_OneUserPerIdentity ==
  \A s \in Slots :
    (Done(s, "callback") /\ req[s].data # {}) =>
      LET ui == req[s].local.userInfo
          owners == {oauthAccounts[a].userId :
                       a \in {b \in DOMAIN oauthAccounts :
                                /\ oauthAccounts[b].provider = ui.provider
                                /\ oauthAccounts[b].providerAccountId = ui.providerAccountId}}
          sameEmail == {u \in DOMAIN users : \E e \in ui.email : users[u].email = toLowerCase(e)}
      IN \A d \in req[s].data :
           /\ owners = {d.user.id}
           /\ \A t \in d.accessToken \cup d.refreshToken : t.sub = d.user.id
           /\ \E id \in DOMAIN sessions : sessions[id].userId = d.user.id
           /\ sameEmail \subseteq {d.user.id}

\* C30: a Twitter login never resolves to, links to or issues tokens for a user
\* created through password registration: after any sequence of register
\* requests and Twitter callbacks every user owning a Twitter OAuth account has
\* a null password hash.
C30_TwitterUsersPasswordless ==
  \A a \in DOMAIN oauthAccounts :
    (oauthAccounts[a].provider = "twitter") =>
      /\ oauthAccounts[a].userId \in DOMAIN users
      /\ users[oauthAccounts[a].userId].passwordHash = {}

====
